---- MODULE Spec2Model ----
(***************************************************************************)
(* Arabico spaced-repetition scheduler: the SM-2 interval calculator, the  *)
(* stage classifier, the difficulty scorer and promotion policy, the       *)
(* review-queue builder, the forecast generator, and the vocabulary store  *)
(* and review session that drive them.                                     *)
(*                                                                         *)
(* Number representation                                                   *)
(*   easeFactor      hundredths            (2.5  is 250, 1.3 is 130)       *)
(*   rootFamilyBonus a fraction [num, den] (0.25 is [num |-> 1, den |-> 4])*)
(*   difficultyScore 1/3000ths             (0.5  is 1500)                  *)
(*   multipliers     hundredths            (1.15 is 115)                   *)
(*   dates           ticks of 30 minutes; NoDate is an absent date         *)
(* Ease factors are decimal fractions with two digits in every update of   *)
(* the source, so hundredths are exact for them up to the rounding error   *)
(* of the double additions, which the model does not track.                *)
(***************************************************************************)
EXTENDS Integers, Sequences, FiniteSets, TLC

VARIABLES
    mode,       \* which harness is running: "fn", "seq", ...
    entry,      \* the VocabularyEntry handed to the pure functions
    call,       \* the last call of a pure function: its arguments and result
    items,      \* the collection of entries handed to the pure functions
    history,    \* qualities of the reviews applied to entry, oldest first
    now,        \* the clock (Date.now()), in ticks
    db,         \* the vocabulary table: its rows in primary-key order
    cache,      \* vocabulary.familiarityCache: wordId -> level
    queue,      \* reviewStore.queue: snapshots of the rows to review
    currentIndex,    \* reviewStore.currentIndex, 0-based
    currentSession,  \* reviewStore.currentSession, or NoSession
    sessionStats,    \* reviewStore.sessionStats
    isPracticeMode,  \* reviewStore.isPracticeMode
    isLoading,       \* reviewStore.isLoading
    tasks,      \* the handlers suspended at an await, with their locals
    calls,      \* number of handler invocations so far
    answered    \* keys of the rows that hold a review answer updateSRS wrote

fnVars == <<entry, call, items, history>>
sessionVars == <<queue, currentIndex, currentSession, sessionStats,
                 isPracticeMode, isLoading>>
storeVars == <<db, cache, queue, currentIndex, currentSession, sessionStats,
               isPracticeMode, isLoading, tasks, calls, answered>>

vars == <<mode, entry, call, items, history, now, db, cache, queue,
          currentIndex, currentSession, sessionStats, isPracticeMode,
          isLoading, tasks, calls, answered>>

----------------------------------------------------------------------------
(* Bounds of the model *)

MaxReviews == 4          \* longest review sequence applied to one item
MaxStreakIn == 5         \* largest consecutiveCorrect drawn as an input
MaxFamily == 2           \* largest root family drawn for the bonus
MaxItems == 3            \* largest collection handed to the queue builder
MaxDays == 3             \* longest forecast window
MaxWords == 2            \* number of words the reader shows
MaxCalls == 3            \* handler invocations in one run of the store
MaxTasks == 1            \* handlers suspended at an await at one time
MaxOverlap == 2          \* the same, in the harness of the review session
MaxDaysPassed == 1       \* days the clock of the store may advance
MaxAnswers == 2          \* answers recorded for the item of the due harness
MaxProgress == 5         \* reviews of the item of the learning progression

(* Units *)
HourTicks == 2
DayTicks == 48
NoDate == -1
NoScore == -1            \* an absent difficultyScore
NoFilter == 0            \* an absent surahFilter
NoCall == [op |-> "none"]
NoRoot == ""             \* an absent root
NoLevel == "none"        \* a wordId the familiarity cache does not hold
NoSession == [mode |-> "none", startTime |-> NoDate]

----------------------------------------------------------------------------
(* Arithmetic helpers: Math.max, Math.min, Math.round *)

Max(a, b) == IF a >= b THEN a ELSE b
Min(a, b) == IF a <= b THEN a ELSE b

\* Math.round(n / d) for n >= 0, d > 0: floor(n/d + 1/2)
MathRound(n, d) == (2 * n + d) \div (2 * d)

\* The integers n <= 1095 whose double product n * 1.15 falls just below
\* k + 0.5 although the exact product is k + 0.5, so that Math.round
\* rounds it down (50 * 1.15 is 57.49999999999999).
Float115Low ==
    {50, 90, 110, 170, 190, 210}
        \cup {330 + 20 * k : k \in 0..5}
        \cup {650 + 20 * k : k \in 0..12}

\* Math.ceil in the place of Math.round
RoundTimes_ceil(n, m100) == (n * m100 + 99) \div 100

\* Math.round(n * m) for an integer n >= 0 and a multiplier of m100 hundredths
RoundTimes(n, m100) ==
    IF m100 = 115 /\ n \in Float115Low
    THEN MathRound(n * m100, 100) - 1
    ELSE MathRound(n * m100, 100)

\* setHours(0, 0, 0, 0): the start of the day of a date
startOfDay(t) == t - (t % DayTicks)

----------------------------------------------------------------------------
(* srs-algorithm.ts *)

Qualities == 0..5

\* getFrequencyMultiplier, in hundredths
getFrequencyMultiplier(frequencyRank) ==
    IF frequencyRank <= 0 THEN 100
    ELSE IF frequencyRank <= 100 THEN 130
    ELSE IF frequencyRank <= 500 THEN 115
    ELSE IF frequencyRank <= 1000 THEN 100
    ELSE 90

\* calculateRootFamilyBonus: knownRatio * 0.5 as the fraction known/(2*total)
calculateRootFamilyBonus(knownInFamily, totalInFamily) ==
    IF totalInFamily <= 1 \/ knownInFamily <= 0
    THEN [num |-> 0, den |-> 1]
    ELSE [num |-> knownInFamily, den |-> 2 * totalInFamily]

\* the SM-2 formula without its quadratic term
easeDelta_linear(quality) == 10 - (5 - quality) * 8

\* EF' = EF + (0.1 - (5 - q) * (0.08 + (5 - q) * 0.02)), in hundredths
easeDelta(quality) == 10 - (5 - quality) * (8 + (5 - quality) * 2)

\* newEaseFactorOf with the failure penalty subtracted and not clamped again
newEaseFactorOf_unclampedPenalty(e, quality) ==
    LET clamped == Max(130, Min(250, e.easeFactor + easeDelta(quality)))
    IN  IF quality < 3 THEN clamped - 20 ELSE clamped

\* the ease factor calculateNextReview returns
newEaseFactorOf(e, quality) ==
    LET clamped == Max(130, Min(250, e.easeFactor + easeDelta(quality)))
    IN  IF quality < 3 THEN Max(130, clamped - 20) ELSE clamped

\* rawIntervalOf with a second interval of 4 days
rawIntervalOf_second4(e, quality, bonus) ==
    IF quality < 3 THEN 1
    ELSE
        LET cc == e.consecutiveCorrect + 1
            ef == newEaseFactorOf(e, quality)
            base == IF cc = 1 THEN 1
                    ELSE IF cc = 2 THEN 4
                    ELSE MathRound(e.interval * (ef * bonus.den + 100 * bonus.num),
                                   100 * bonus.den)
            byFreq == RoundTimes(base, getFrequencyMultiplier(e.frequencyRank))
        IN  IF quality = 5 THEN RoundTimes(byFreq, 110)
            ELSE IF quality = 3 THEN RoundTimes(byFreq, 90)
            ELSE byFreq

\* rawIntervalOf multiplying by the ease factor the entry had before the review
rawIntervalOf_oldEase(e, quality, bonus) ==
    IF quality < 3 THEN 1
    ELSE
        LET cc == e.consecutiveCorrect + 1
            ef == e.easeFactor
            base == IF cc = 1 THEN 1
                    ELSE IF cc = 2 THEN 6
                    ELSE MathRound(e.interval * (ef * bonus.den + 100 * bonus.num),
                                   100 * bonus.den)
            byFreq == RoundTimes(base, getFrequencyMultiplier(e.frequencyRank))
        IN  IF quality = 5 THEN RoundTimes(byFreq, 110)
            ELSE IF quality = 3 THEN RoundTimes(byFreq, 90)
            ELSE byFreq

\* the interval calculateNextReview computes before the final clamp
rawIntervalOf(e, quality, bonus) ==
    IF quality < 3 THEN 1
    ELSE
        LET cc == e.consecutiveCorrect + 1
            ef == newEaseFactorOf(e, quality)
            base == IF cc = 1 THEN 1
                    ELSE IF cc = 2 THEN 6
                    ELSE MathRound(e.interval * (ef * bonus.den + 100 * bonus.num),
                                   100 * bonus.den)
            byFreq == RoundTimes(base, getFrequencyMultiplier(e.frequencyRank))
        IN  IF quality = 5 THEN RoundTimes(byFreq, 110)
            ELSE IF quality = 3 THEN RoundTimes(byFreq, 90)
            ELSE byFreq

\* calculateNextReview without the clamp of the interval to [1, 365]
calculateNextReview_unclamped(e, quality, bonus, t) ==
    LET newInterval == rawIntervalOf(e, quality, bonus)
    IN  [newEaseFactor |-> newEaseFactorOf(e, quality),
         newInterval |-> newInterval,
         nextReviewDate |-> t + newInterval * DayTicks,
         newConsecutiveCorrect |->
             IF quality < 3 THEN 0 ELSE e.consecutiveCorrect + 1]

\* calculateNextReview taking quality 2 for a successful recall
calculateNextReview_pass2(e, quality, bonus, t) ==
    LET q == IF quality = 2 THEN 3 ELSE quality
        newInterval == Max(1, Min(365, rawIntervalOf(e, q, bonus)))
    IN  [newEaseFactor |-> newEaseFactorOf(e, q),
         newInterval |-> newInterval,
         nextReviewDate |-> t + newInterval * DayTicks,
         newConsecutiveCorrect |->
             IF q < 3 THEN 0 ELSE e.consecutiveCorrect + 1]

\* calculateNextReview keeping the streak on a failed recall
calculateNextReview_streakKept(e, quality, bonus, t) ==
    LET newInterval == Max(1, Min(365, rawIntervalOf(e, quality, bonus)))
    IN  [newEaseFactor |-> newEaseFactorOf(e, quality),
         newInterval |-> newInterval,
         nextReviewDate |-> t + newInterval * DayTicks,
         newConsecutiveCorrect |->
             IF quality < 3 THEN e.consecutiveCorrect
             ELSE e.consecutiveCorrect + 1]

\* calculateNextReview counting the days from the start of today
calculateNextReview_fromMidnight(e, quality, bonus, t) ==
    LET newInterval == Max(1, Min(365, rawIntervalOf(e, quality, bonus)))
    IN  [newEaseFactor |-> newEaseFactorOf(e, quality),
         newInterval |-> newInterval,
         nextReviewDate |-> startOfDay(t) + newInterval * DayTicks,
         newConsecutiveCorrect |->
             IF quality < 3 THEN 0 ELSE e.consecutiveCorrect + 1]

calculateNextReview(e, quality, bonus, t) ==
    LET newInterval == Max(1, Min(365, rawIntervalOf(e, quality, bonus)))
    IN  [newEaseFactor |-> newEaseFactorOf(e, quality),
         newInterval |-> newInterval,
         nextReviewDate |-> t + newInterval * DayTicks,
         newConsecutiveCorrect |->
             IF quality < 3 THEN 0 ELSE e.consecutiveCorrect + 1]

\* calculateDifficultyScore with the review component at its full weight 0.2
calculateDifficultyScore_fullVolume(e) ==
    LET easeComponent == (250 - e.easeFactor) * 10
        streakComponent == Max(0, 5 - e.consecutiveCorrect) * 240
        reviewComponent == IF e.reviewCount > 0
                           THEN Min(20, e.reviewCount) * 30 ELSE 0
    IN  Max(0, Min(3000, easeComponent + streakComponent + reviewComponent))

\* calculateDifficultyScore, in 1/3000ths:
\*   easeComponent * 0.4   is (2.5 - ef) / 1.2 * 0.4      = (250 - ef) * 10
\*   streakComponent * 0.4 is max(0, 1 - cc / 5) * 0.4    = max(0, 5 - cc) * 240
\*   reviewComponent * 0.2 is min(1, rc / 20) * 0.3 * 0.2 = min(20, rc) * 9
calculateDifficultyScore(e) ==
    LET easeComponent == (250 - e.easeFactor) * 10
        streakComponent == Max(0, 5 - e.consecutiveCorrect) * 240
        reviewComponent == IF e.reviewCount > 0
                           THEN Min(20, e.reviewCount) * 9 ELSE 0
    IN  Max(0, Min(3000, easeComponent + streakComponent + reviewComponent))

\* shouldPromoteToKnown with the ease factor required to exceed 2.0
shouldPromoteToKnown_strictEase(e) ==
    e.consecutiveCorrect >= 5 /\ e.easeFactor > 200 /\ e.interval >= 21

\* shouldPromoteToKnown promoting after a streak of four
shouldPromoteToKnown_streak4(e) ==
    e.consecutiveCorrect >= 4 /\ e.easeFactor >= 200 /\ e.interval >= 21

shouldPromoteToKnown(e) ==
    e.consecutiveCorrect >= 5 /\ e.easeFactor >= 200 /\ e.interval >= 21

\* getReviewStage with a mature threshold of 30 days
getReviewStage_mature30(e) ==
    IF e.familiarity = "ignored" THEN "suspended"
    ELSE IF e.reviewCount = 0 THEN "new"
    ELSE IF e.interval < 1 THEN "learning"
    ELSE IF e.interval >= 30 /\ e.consecutiveCorrect >= 5 THEN "mature"
    ELSE "young"

\* getReviewStage asking for an unstruggling ease factor before "mature"
getReviewStage_easeAware(e) ==
    IF e.familiarity = "ignored" THEN "suspended"
    ELSE IF e.reviewCount = 0 THEN "new"
    ELSE IF e.interval < 1 THEN "learning"
    ELSE IF e.interval >= 21 /\ e.consecutiveCorrect >= 5 /\ e.easeFactor >= 200
         THEN "mature"
    ELSE "young"

getReviewStage(e) ==
    IF e.familiarity = "ignored" THEN "suspended"
    ELSE IF e.reviewCount = 0 THEN "new"
    ELSE IF e.interval < 1 THEN "learning"
    ELSE IF e.interval >= 21 /\ e.consecutiveCorrect >= 5 THEN "mature"
    ELSE "young"

\* Math.ceil(a / b) for b > 0
MathCeil(a, b) == -((-a) \div b)

\* the forecast day taken from the due date as stored, its time of day
\* included
dueDayOf_fromDate(e, today) ==
    IF e.nextReviewDate = NoDate THEN 0
    ELSE Max(0, MathCeil(e.nextReviewDate - today, DayTicks))

\* the forecast day of an entry: today for an entry without a due date or an
\* overdue one
dueDayOf(e, today) ==
    IF e.nextReviewDate = NoDate THEN 0
    ELSE Max(0, MathCeil(startOfDay(e.nextReviewDate) - today, DayTicks))

\* the empty forecast: one ReviewForecast for each of the days, dated from today
emptyForecast(days, today) ==
    [d \in 0..(days - 1) |->
        [date |-> today + d * DayTicks, dueCount |-> 0, words |-> << >>]]

\* the loop of generateReviewForecast over the entries
RECURSIVE categorize(_, _, _, _)
categorize(forecast, entries, days, today) ==
    IF entries = << >> THEN forecast
    ELSE
        LET e == Head(entries)
            stage == getReviewStage(e)
            dueDay == dueDayOf(e, today)
            counted ==
                IF stage = "suspended" THEN forecast
                ELSE IF dueDay < days
                THEN [forecast EXCEPT
                         ![dueDay].dueCount = @ + 1,
                         ![dueDay].words = Append(@, [id |-> e.wordId, stage |-> stage])]
                ELSE forecast
        IN  categorize(counted, Tail(entries), days, today)

\* generateReviewForecast putting the entries beyond the window into its
\* last day
generateReviewForecast_lastDay(entries, days, t) ==
    LET today == startOfDay(t)
        late == SelectSeq(entries,
                    LAMBDA e : getReviewStage(e) # "suspended"
                               /\ dueDayOf(e, today) >= days)
        f == categorize(emptyForecast(days, today), entries, days, today)
    IN  IF days > 0
        THEN [f EXCEPT ![days - 1].dueCount = @ + Len(late)]
        ELSE f

generateReviewForecast(entries, days, t) ==
    LET today == startOfDay(t)
    IN  categorize(emptyForecast(days, today), entries, days, today)

----------------------------------------------------------------------------
(* review-queue.ts *)

\* a.difficultyScore ?? calculateDifficultyScore(a)
difficultyOf(e) ==
    IF e.difficultyScore = NoScore THEN calculateDifficultyScore(e)
    ELSE e.difficultyScore

\* The priority sortByPriority compares, scaled to integers.
\*   practice: difficulty * 0.5 + days since the last review * 0.5,
\*             times 2 * 3000 * DayTicks
\*   normal:   overdue ms + difficulty * weight, times 3000 / weight, where a
\*             tick is 1800000 ms (weight 500000 for "quick", else 1000000)
\* priorityOf taking an item without a due date as not overdue at all
priorityOf_unscheduledZero(e, reviewMode, practiceMode, t) ==
    IF practiceMode
    THEN LET lastReview == IF e.lastReviewed = NoDate THEN 0 ELSE e.lastReviewed
         IN  difficultyOf(e) * DayTicks + (t - lastReview) * 3000
    ELSE LET overdue == IF e.nextReviewDate = NoDate THEN 0
                        ELSE t - e.nextReviewDate
         IN  IF reviewMode = "quick"
             THEN overdue * 10800 + difficultyOf(e)
             ELSE overdue * 5400 + difficultyOf(e)

priorityOf(e, reviewMode, practiceMode, t) ==
    IF practiceMode
    THEN LET lastReview == IF e.lastReviewed = NoDate THEN 0 ELSE e.lastReviewed
         IN  difficultyOf(e) * DayTicks + (t - lastReview) * 3000
    ELSE LET overdue == IF e.nextReviewDate = NoDate THEN t
                        ELSE t - e.nextReviewDate
         IN  IF reviewMode = "quick"
             THEN overdue * 10800 + difficultyOf(e)
             ELSE overdue * 5400 + difficultyOf(e)

\* a sort that puts a word ahead of the earlier words of the same priority
RECURSIVE sortByPriority_unstable(_, _, _, _)
sortByPriority_unstable(words, reviewMode, practiceMode, t) ==
    IF words = << >> THEN << >>
    ELSE
        LET last == words[Len(words)]
            front == sortByPriority_unstable(SubSeq(words, 1, Len(words) - 1),
                                             reviewMode, practiceMode, t)
            key(e) == priorityOf(e, reviewMode, practiceMode, t)
            ahead == Cardinality({i \in DOMAIN front : key(front[i]) > key(last)})
        IN  SubSeq(front, 1, ahead) \o <<last>>
                \o SubSeq(front, ahead + 1, Len(front))

\* words.sort((a, b) => bPriority - aPriority): a stable sort, highest first
RECURSIVE sortByPriority(_, _, _, _)
sortByPriority(words, reviewMode, practiceMode, t) ==
    IF words = << >> THEN << >>
    ELSE
        LET last == words[Len(words)]
            front == sortByPriority(SubSeq(words, 1, Len(words) - 1),
                                    reviewMode, practiceMode, t)
            key(e) == priorityOf(e, reviewMode, practiceMode, t)
            ahead == Cardinality({i \in DOMAIN front : key(front[i]) >= key(last)})
        IN  SubSeq(front, 1, ahead) \o <<last>>
                \o SubSeq(front, ahead + 1, Len(front))

\* sortedWords.slice(0, maxWords) for maxWords >= 0
sliceTo(words, maxWords) == SubSeq(words, 1, Min(maxWords, Len(words)))

\* vocabularyDB.getByFamiliarity: the rows of a level, in key order
getByFamiliarity(rows, level) ==
    SelectSeq(rows, LAMBDA e : e.familiarity = level)

\* queueOf taking a word due at this very moment as not yet due
queueOf_strictlyDue(learningWords, seenWords, knownWords, options, t) ==
    LET candidates == learningWords \o seenWords \o knownWords
        inSurah(w) == \/ w.firstSeen = options.surahFilter
                      \/ \E i \in DOMAIN w.encounterLocations :
                             w.encounterLocations[i] = options.surahFilter
        filtered == IF options.surahFilter # NoFilter
                    THEN SelectSeq(candidates, inSurah)
                    ELSE candidates
        practice(w) ==
            /\ ~(w.lastReviewed # NoDate /\ w.lastReviewed > t - HourTicks)
            /\ w.reviewCount # 0
        due(w) == w.nextReviewDate = NoDate \/ w.nextReviewDate < t
        wordsToReview == IF options.practiceMode
                         THEN SelectSeq(filtered, practice)
                         ELSE SelectSeq(filtered, due)
    IN  sliceTo(sortByPriority(wordsToReview, options.mode,
                               options.practiceMode, t),
                options.maxWords)

\* queueOf taking a word answered exactly an hour ago as answered within the
\* hour
queueOf_hourInclusive(learningWords, seenWords, knownWords, options, t) ==
    LET candidates == learningWords \o seenWords \o knownWords
        inSurah(w) == \/ w.firstSeen = options.surahFilter
                      \/ \E i \in DOMAIN w.encounterLocations :
                             w.encounterLocations[i] = options.surahFilter
        filtered == IF options.surahFilter # NoFilter
                    THEN SelectSeq(candidates, inSurah)
                    ELSE candidates
        practice(w) ==
            /\ ~(w.lastReviewed # NoDate /\ w.lastReviewed >= t - HourTicks)
            /\ w.reviewCount # 0
        due(w) == w.nextReviewDate = NoDate \/ w.nextReviewDate <= t
        wordsToReview == IF options.practiceMode
                         THEN SelectSeq(filtered, practice)
                         ELSE SelectSeq(filtered, due)
    IN  sliceTo(sortByPriority(wordsToReview, options.mode,
                               options.practiceMode, t),
                options.maxWords)

\* buildReviewQueue after its reads of the store
queueOf(learningWords, seenWords, knownWords, options, t) ==
    LET candidates == learningWords \o seenWords \o knownWords
        inSurah(w) == \/ w.firstSeen = options.surahFilter
                      \/ \E i \in DOMAIN w.encounterLocations :
                             w.encounterLocations[i] = options.surahFilter
        filtered == IF options.surahFilter # NoFilter
                    THEN SelectSeq(candidates, inSurah)
                    ELSE candidates
        practice(w) ==
            /\ ~(w.lastReviewed # NoDate /\ w.lastReviewed > t - HourTicks)
            /\ w.reviewCount # 0
        due(w) == w.nextReviewDate = NoDate \/ w.nextReviewDate <= t
        wordsToReview == IF options.practiceMode
                         THEN SelectSeq(filtered, practice)
                         ELSE SelectSeq(filtered, due)
    IN  sliceTo(sortByPriority(wordsToReview, options.mode,
                               options.practiceMode, t),
                options.maxWords)

\* buildReviewQueue returning the sorted words without the slice
buildReviewQueue_unsliced(rows, options, t) ==
    queueOf(getByFamiliarity(rows, "learning"),
            IF options.includeNewWords THEN getByFamiliarity(rows, "seen") ELSE << >>,
            IF options.practiceMode THEN getByFamiliarity(rows, "known") ELSE << >>,
            [options EXCEPT !.maxWords = Len(rows)], t)

\* buildReviewQueue over one snapshot of the store
buildReviewQueue(rows, options, t) ==
    queueOf(getByFamiliarity(rows, "learning"),
            IF options.includeNewWords THEN getByFamiliarity(rows, "seen") ELSE << >>,
            IF options.practiceMode THEN getByFamiliarity(rows, "known") ELSE << >>,
            options, t)

----------------------------------------------------------------------------
(* Inputs of the calculator harnesses *)

EaseSamples == {130, 150, 200, 236, 250}
RankSamples == {0, 1, 100, 101, 500, 501, 1000, 1001}
IntervalSamples == 0..365
StreakSamples == 0..MaxStreakIn

\* the bonus of every root family of at most MaxFamily words, any number of
\* them known
Bonuses ==
    {calculateRootFamilyBonus(Min(k, n), n) : k \in 0..MaxFamily, n \in 1..MaxFamily}

\* the store and the review session before anything has happened
IdleStore ==
    /\ db = << >>
    /\ cache = [w \in 1..MaxWords |-> NoLevel]
    /\ queue = << >>
    /\ currentIndex = 0
    /\ currentSession = NoSession
    /\ sessionStats = [reviewed |-> 0, correct |-> 0]
    /\ isPracticeMode = FALSE
    /\ isLoading = FALSE
    /\ tasks = << >>
    /\ calls = 0
    /\ answered = {}

NewEntry(ef, rank) ==
    [easeFactor |-> ef, interval |-> 0, consecutiveCorrect |-> 0,
     reviewCount |-> 0, frequencyRank |-> rank]

----------------------------------------------------------------------------
(* Harness "seq": one item, reviewed again and again, every result written *)
(* back to the item before the next review.                                *)

InitSeq ==
    /\ mode = "seq"
    /\ \E ef \in 130..250, rank \in {0, 101} :
           entry = NewEntry(ef, rank)
    /\ call = NoCall
    /\ items = << >>
    /\ history = << >>
    /\ now = 0
    /\ IdleStore

Review(quality, bonus) ==
    /\ mode \in {"seq", "learn"}
    /\ Len(history) < (IF mode = "learn" THEN MaxProgress ELSE MaxReviews)
    /\ LET r == calculateNextReview(entry, quality, bonus, now)
       IN  entry' = [entry EXCEPT !.easeFactor = r.newEaseFactor,
                                  !.interval = r.newInterval,
                                  !.consecutiveCorrect = r.newConsecutiveCorrect,
                                  !.reviewCount = @ + 1]
    /\ history' = Append(history, quality)
    /\ UNCHANGED <<mode, call, items, now, storeVars>>

NextSeq == \E quality \in Qualities, bonus \in Bonuses : Review(quality, bonus)

SpecSeq == InitSeq /\ [][NextSeq]_vars

(* Harness "learn": the learning progression of a freshly created item of  *)
(* any frequency band, answered with a failure or a good or perfect recall.*)

InitLearn ==
    /\ mode = "learn"
    /\ \E rank \in RankSamples : entry = NewEntry(250, rank)
    /\ call = NoCall
    /\ items = << >>
    /\ history = << >>
    /\ now = 0
    /\ IdleStore

NextLearn == \E quality \in {2, 4, 5}, bonus \in Bonuses : Review(quality, bonus)

SpecLearn == InitLearn /\ [][NextLearn]_vars

----------------------------------------------------------------------------
(* Harness "fn": calculateNextReview applied once to an arbitrary entry,    *)
(* which it leaves as it was.                                              *)

InitFn ==
    /\ mode = "fn"
    /\ \E ef \in EaseSamples, iv \in IntervalSamples,
          cc \in StreakSamples, rank \in RankSamples :
           entry = [easeFactor |-> ef, interval |-> iv,
                    consecutiveCorrect |-> cc, reviewCount |-> cc,
                    frequencyRank |-> rank]
    /\ call = NoCall
    /\ items = << >>
    /\ history = << >>
    /\ now = 0
    /\ IdleStore

Calculate(quality, bonus) ==
    /\ mode \in {"fn", "ease"}
    /\ call = NoCall
    /\ call' = [op |-> "calculateNextReview", entry |-> entry,
                quality |-> quality, bonus |-> bonus,
                result |-> calculateNextReview(entry, quality, bonus, now)]
    /\ UNCHANGED <<mode, entry, items, history, now, storeVars>>

NextFn == \E quality \in Qualities, bonus \in Bonuses : Calculate(quality, bonus)

SpecFn == InitFn /\ [][NextFn]_vars

(* Harness "ease": the same single application, to an entry of any ease    *)
(* factor between 1.30 and 2.50.                                           *)

InitEase ==
    /\ mode = "ease"
    /\ \E ef \in 130..250, iv \in {0, 1, 20}, cc \in {0, 1, MaxStreakIn},
          rank \in {0, 101} :
           entry = [easeFactor |-> ef, interval |-> iv,
                    consecutiveCorrect |-> cc, reviewCount |-> cc,
                    frequencyRank |-> rank]
    /\ call = NoCall
    /\ items = << >>
    /\ history = << >>
    /\ now = 0
    /\ IdleStore

SpecEase == InitEase /\ [][NextFn]_vars

----------------------------------------------------------------------------
(* Harness "cls": getReviewStage and shouldPromoteToKnown applied to two   *)
(* entries that agree on familiarity, reviewCount, interval and            *)
(* consecutiveCorrect and may differ in every other field.  The streak of  *)
(* an entry never exceeds its reviewCount: updateSRS writes both.          *)

FamiliarityLevels == {"new", "seen", "learning", "known", "ignored"}

InitCls ==
    /\ mode = "cls"
    /\ entry = NewEntry(250, 0)
    /\ call = NoCall
    /\ \E fam \in FamiliarityLevels, rc \in {0, 1, 5, MaxStreakIn + 2},
          iv \in {0, 1, 20, 21, 365},
          cc \in {0, 4, 5, MaxStreakIn + 1}, ef1 \in {130, 199, 200, 250},
          ef2 \in {130, 199, 200, 250}, rank \in {0, 1001},
          next \in {NoDate, DayTicks} :
           /\ cc <= rc
           /\ items = << [familiarity |-> fam, reviewCount |-> rc, interval |-> iv,
                       consecutiveCorrect |-> cc, easeFactor |-> ef1,
                       frequencyRank |-> 0, nextReviewDate |-> NoDate],
                      [familiarity |-> fam, reviewCount |-> rc, interval |-> iv,
                       consecutiveCorrect |-> cc, easeFactor |-> ef2,
                       frequencyRank |-> rank, nextReviewDate |-> next] >>
    /\ history = << >>
    /\ now = 0
    /\ IdleStore

Classify ==
    /\ mode = "cls"
    /\ call = NoCall
    /\ call' = [op |-> "classify",
                stage |-> [i \in DOMAIN items |-> getReviewStage(items[i])],
                promote |-> [i \in DOMAIN items |-> shouldPromoteToKnown(items[i])]]
    /\ UNCHANGED <<mode, entry, items, history, now, storeVars>>

NextCls == Classify

SpecCls == InitCls /\ [][NextCls]_vars

----------------------------------------------------------------------------
(* Collections of entries for the queue builder and the forecast: every    *)
(* sequence of at most MaxItems sample entries, wordId being the position. *)

Now0 == 10 * DayTicks + 20       \* 10:00 on the eleventh day of the clock

SampleEntry(fam, rc, iv, cc, ef, next, last, score, surah, seenIn) ==
    [familiarity |-> fam, reviewCount |-> rc, interval |-> iv,
     consecutiveCorrect |-> cc, easeFactor |-> ef, frequencyRank |-> 0,
     nextReviewDate |-> next, lastReviewed |-> last, difficultyScore |-> score,
     firstSeen |-> surah, encounterLocations |-> seenIn]

withIds(entries) ==
    [i \in DOMAIN entries |-> [wordId |-> i] @@ entries[i]]

Collections(samples) ==
    UNION {[1..n -> samples] : n \in 0..MaxItems}

QueueSamples ==
    { \* seen while reading, never reviewed
      SampleEntry("seen", 0, 0, 0, 250, NoDate, NoDate, 1500, 1, <<1>>),
      \* added to review, never answered
      SampleEntry("learning", 1, 0, 0, 250, NoDate, Now0 - DayTicks, 1500, 2, <<2>>),
      \* a day overdue, also met in surah 2
      SampleEntry("learning", 2, 1, 1, 236, Now0 - DayTicks, Now0 - 2 * DayTicks,
                  1110, 1, <<1, 2>>),
      \* due at this very moment, no cached difficulty
      SampleEntry("learning", 3, 6, 0, 150, Now0, Now0 - 6 * DayTicks,
                  NoScore, 1, <<1>>),
      \* not due yet, answered half an hour ago
      SampleEntry("learning", 4, 1, 1, 250, Now0 + DayTicks - 1, Now0 - 1,
                  996, 2, <<2>>),
      \* not due yet, answered two hours ago
      SampleEntry("learning", 4, 6, 2, 250, Now0 + 6 * DayTicks, Now0 - 2 * HourTicks,
                  756, 1, <<1>>),
      \* known, due in a month
      SampleEntry("known", 6, 50, 5, 250, Now0 + 30 * DayTicks, Now0 - 20 * DayTicks,
                  54, 2, <<2>>),
      \* not due yet, answered exactly one hour ago
      SampleEntry("learning", 5, 6, 2, 236, Now0 + 6 * DayTicks - HourTicks,
                  Now0 - HourTicks, 905, 1, <<1>>),
      \* brought in by loadFromSupabase with a review count and no review date
      SampleEntry("learning", 3, 0, 0, 250, NoDate, NoDate, 1500, 1, << >>),
      \* ignored after a review
      SampleEntry("ignored", 2, 1, 1, 250, Now0 - DayTicks, Now0 - 2 * DayTicks,
                  969, 1, <<1>>) }

QueueOptions ==
    [mode : {"contextual", "quick"}, maxWords : 0..MaxItems,
     surahFilter : {NoFilter, 2}, includeNewWords : BOOLEAN,
     practiceMode : BOOLEAN]

InitQueue ==
    /\ mode = "queue"
    /\ entry = NewEntry(250, 0)
    /\ call = NoCall
    /\ \E c \in Collections(QueueSamples) : items = withIds(c)
    /\ history = << >>
    /\ now = Now0
    /\ IdleStore

\* BuildQueue sorting the collection it was given instead of a copy
BuildQueue_sortsInput(options) ==
    /\ mode = "queue"
    /\ call = NoCall
    /\ call' = [op |-> "buildReviewQueue", options |-> options,
                result |-> buildReviewQueue(items, options, now)]
    /\ items' = sortByPriority(items, options.mode, options.practiceMode, now)
    /\ UNCHANGED <<mode, entry, history, now, storeVars>>

BuildQueue(options) ==
    /\ mode = "queue"
    /\ call = NoCall
    /\ call' = [op |-> "buildReviewQueue", options |-> options,
                result |-> buildReviewQueue(items, options, now)]
    /\ UNCHANGED <<mode, entry, items, history, now, storeVars>>

NextQueue == \E options \in QueueOptions : BuildQueue(options)

SpecQueue == InitQueue /\ [][NextQueue]_vars

ForecastSamples ==
    { \* seen while reading, never reviewed
      SampleEntry("seen", 0, 0, 0, 250, NoDate, NoDate, 1500, 1, <<1>>),
      \* three days overdue
      SampleEntry("learning", 2, 1, 1, 236, Now0 - 3 * DayTicks, Now0 - 4 * DayTicks,
                  1110, 1, <<1>>),
      \* due later today
      SampleEntry("learning", 2, 1, 1, 250, Now0 + 10, Now0 + 10 - DayTicks,
                  978, 1, <<1>>),
      \* due tomorrow at 10:00
      SampleEntry("learning", 3, 6, 2, 250, Now0 + DayTicks, Now0 - 5 * DayTicks,
                  747, 1, <<1>>),
      \* due in three calendar days, at 06:00
      SampleEntry("known", 6, 30, 5, 250, Now0 + 3 * DayTicks - 8, Now0 - 27 * DayTicks,
                  54, 1, <<1>>),
      \* known, due in a month
      SampleEntry("known", 7, 50, 6, 250, Now0 + 30 * DayTicks, Now0 - 20 * DayTicks,
                  63, 1, <<1>>),
      \* ignored, due tomorrow
      SampleEntry("ignored", 2, 1, 1, 250, Now0 + DayTicks, Now0,
                  969, 1, <<1>>) }

InitForecast ==
    /\ mode = "forecast"
    /\ entry = NewEntry(250, 0)
    /\ call = NoCall
    /\ \E c \in Collections(ForecastSamples) : items = withIds(c)
    /\ history = << >>
    /\ now = Now0
    /\ IdleStore

Forecast(days) ==
    /\ mode = "forecast"
    /\ call = NoCall
    /\ call' = [op |-> "generateReviewForecast", days |-> days,
                result |-> generateReviewForecast(items, days, now)]
    /\ UNCHANGED <<mode, entry, items, history, now, storeVars>>

NextForecast == \E days \in 0..MaxDays : Forecast(days)

SpecForecast == InitForecast /\ [][NextForecast]_vars

----------------------------------------------------------------------------
(* Harness "score": calculateDifficultyScore applied once to an entry of   *)
(* any ease factor, streak and review count.                               *)

ReviewCountSamples == {0, 1, 10, 19, 20, 21, 40}

InitScore ==
    /\ mode = "score"
    /\ \E ef \in 130..250, cc \in 0..(MaxStreakIn + 1), rc \in ReviewCountSamples :
           entry = [easeFactor |-> ef, interval |-> 0, consecutiveCorrect |-> cc,
                    reviewCount |-> rc, frequencyRank |-> 0]
    /\ call = NoCall
    /\ items = << >>
    /\ history = << >>
    /\ now = 0
    /\ IdleStore

Score ==
    /\ mode = "score"
    /\ call = NoCall
    /\ call' = [op |-> "calculateDifficultyScore", entry |-> entry,
                result |-> calculateDifficultyScore(entry)]
    /\ UNCHANGED <<mode, entry, items, history, now, storeVars>>

NextScore == Score

SpecScore == InitScore /\ [][NextScore]_vars

----------------------------------------------------------------------------
(* The pure functions together: each harness applies its function to the   *)
(* entry or the collection it started from.                                *)

InitPure == InitEase \/ InitCls \/ InitScore \/ InitQueue \/ InitForecast

NextPure == NextFn \/ NextCls \/ NextScore \/ NextQueue \/ NextForecast

SpecPure == InitPure /\ [][NextPure]_vars

----------------------------------------------------------------------------
(* The vocabulary store (db/index.ts, stores/vocabulary.svelte.ts) and the *)
(* review session (stores/review.svelte.ts).  Every handler is async: its  *)
(* call runs up to its first await and leaves a task, and each later step  *)
(* resumes one task up to its next await.                                  *)

WordIds == 1..MaxWords
Locations == {1}                 \* the surah of a QuranLocation
StoreQualities == {2, 3, 5}      \* a failure, a hard and a perfect recall

\* vocabularyDB.getByWordId: the key of the first row of a word, or 0
getByWordId(rows, wordId) ==
    IF \E k \in DOMAIN rows : rows[k].wordId = wordId
    THEN CHOOSE k \in DOMAIN rows :
             /\ rows[k].wordId = wordId
             /\ \A j \in DOMAIN rows : rows[j].wordId = wordId => k <= j
    ELSE 0

\* vocabularyDB.getByRoot
getByRoot(rows, root) == SelectSeq(rows, LAMBDA e : e.root = root)

\* db.vocabulary.update(key, changes): the given fields replace the row's
updateRow(rows, key, changes) ==
    [rows EXCEPT ![key] = [f \in DOMAIN @ |->
                              IF f \in DOMAIN changes THEN changes[f] ELSE @[f]]]

removeAt(s, i) == SubSeq(s, 1, i - 1) \o SubSeq(s, i + 1, Len(s))

\* the updates of recordResponse without the new interval
srsUpdates_keepInterval(e, quality, bonus, t) ==
    LET srsResult == calculateNextReview(e, quality, bonus, t)
        updatedEntry == [e EXCEPT !.easeFactor = srsResult.newEaseFactor,
                                  !.consecutiveCorrect =
                                      srsResult.newConsecutiveCorrect]
        newFamiliarity == IF shouldPromoteToKnown(updatedEntry) THEN "known"
                          ELSE IF e.familiarity = "seen" THEN "learning"
                          ELSE e.familiarity
    IN  [easeFactor |-> srsResult.newEaseFactor,
         interval |-> e.interval,
         nextReviewDate |-> srsResult.nextReviewDate,
         consecutiveCorrect |-> srsResult.newConsecutiveCorrect,
         familiarity |-> newFamiliarity,
         difficultyScore |-> calculateDifficultyScore(updatedEntry)]

\* the updates recordResponse hands to updateSRS
srsUpdates(e, quality, bonus, t) ==
    LET srsResult == calculateNextReview(e, quality, bonus, t)
        updatedEntry == [e EXCEPT !.easeFactor = srsResult.newEaseFactor,
                                  !.interval = srsResult.newInterval,
                                  !.consecutiveCorrect =
                                      srsResult.newConsecutiveCorrect]
        newFamiliarity == IF shouldPromoteToKnown(updatedEntry) THEN "known"
                          ELSE IF e.familiarity = "seen" THEN "learning"
                          ELSE e.familiarity
    IN  [easeFactor |-> srsResult.newEaseFactor,
         interval |-> srsResult.newInterval,
         nextReviewDate |-> srsResult.nextReviewDate,
         consecutiveCorrect |-> srsResult.newConsecutiveCorrect,
         familiarity |-> newFamiliarity,
         difficultyScore |-> calculateDifficultyScore(updatedEntry)]

StoreRow(fam, rc, iv, cc, ef, next, last, score, surah, root, rank) ==
    [SampleEntry(fam, rc, iv, cc, ef, next, last, score, surah, <<surah>>)
        EXCEPT !.frequencyRank = rank] @@ [root |-> root]

\* seen while reading, never reviewed
SeenRow == StoreRow("seen", 0, 0, 0, 250, NoDate, NoDate, 1500, 1, NoRoot, 0)

\* learning, due, one success short of the promotion to known
LearningRow ==
    StoreRow("learning", 5, 20, 4, 250, Now0 - DayTicks, Now0 - 21 * DayTicks,
             285, 1, "ktb", 101)

\* promoted to known, due in a month
KnownRow ==
    StoreRow("known", 6, 50, 5, 250, Now0 + 30 * DayTicks, Now0 - 20 * DayTicks,
             54, 1, "ktb", 0)

\* the tables the store may start from: no more rows than words
StoreTables ==
    {t \in {<< >>, <<SeenRow>>, <<LearningRow>>, <<LearningRow, KnownRow>>,
            <<SeenRow, LearningRow>>} : Len(t) <= MaxWords}

InitStore ==
    /\ mode = "store"
    /\ entry = NewEntry(250, 0)
    /\ call = NoCall
    /\ items = << >>
    /\ history = << >>
    /\ now = Now0
    /\ \E t \in StoreTables : db = withIds(t)
    /\ cache = [w \in WordIds |->
                   IF w <= Len(db) THEN db[w].familiarity ELSE NoLevel]
    /\ queue = << >>
    /\ currentIndex = 0
    /\ currentSession = NoSession
    /\ sessionStats = [reviewed |-> 0, correct |-> 0]
    /\ isPracticeMode = FALSE
    /\ isLoading = FALSE
    /\ tasks = << >>
    /\ calls = 0
    /\ answered = {k \in DOMAIN db : db[k].consecutiveCorrect > 0}

\* a handler is invoked, within the bounds of the model
Invoked ==
    /\ mode \in {"store", "sync", "session"}
    /\ calls < MaxCalls
    /\ calls' = calls + 1

\* an async handler is invoked and suspends at its first await as the task
Suspends(task) ==
    /\ Invoked
    /\ Len(tasks) < (IF mode = "session" THEN MaxOverlap ELSE MaxTasks)
    /\ tasks' = Append(tasks, task)

\* task i is at the await named pc of a handler of the given kind
At(i, kind, pc) ==
    /\ mode \in {"store", "sync", "session"}
    /\ i \in DOMAIN tasks
    /\ tasks[i].kind = kind
    /\ tasks[i].pc = pc

(* vocabulary.markSeen -> vocabularyDB.upsert *)

markSeen(wordId, location) ==
    /\ cache[wordId] \in {NoLevel, "new"}
    /\ Suspends([kind |-> "markSeen", pc |-> "getByWordId", wordId |-> wordId,
                 changes |-> [familiarity |-> "seen", reviewCount |-> 0,
                              frequencyRank |-> 0, firstSeen |-> location,
                              easeFactor |-> 250, interval |-> 0,
                              consecutiveCorrect |-> 0,
                              encounterLocations |-> <<location>>,
                              difficultyScore |-> 1500]])
    /\ UNCHANGED <<mode, fnVars, now, db, cache, sessionVars, answered>>

upsert_getByWordId(i) ==
    /\ At(i, "markSeen", "getByWordId")
    /\ tasks' = [tasks EXCEPT ![i] =
                    [@ EXCEPT !.pc = "write"]
                        @@ [key |-> getByWordId(db, tasks[i].wordId)]]
    /\ UNCHANGED <<mode, fnVars, now, db, cache, sessionVars, calls, answered>>

upsert_write(i) ==
    /\ At(i, "markSeen", "write")
    /\ db' = IF tasks[i].key # 0
             THEN updateRow(db, tasks[i].key, tasks[i].changes)
             ELSE Append(db, tasks[i].changes
                                @@ [wordId |-> tasks[i].wordId, root |-> NoRoot,
                                    nextReviewDate |-> NoDate,
                                    lastReviewed |-> NoDate])
    /\ answered' = answered \ {tasks[i].key}
    /\ tasks' = [tasks EXCEPT ![i] = [kind |-> "markSeen", pc |-> "setCache",
                                      wordId |-> tasks[i].wordId]]
    /\ UNCHANGED <<mode, fnVars, now, cache, sessionVars, calls>>

markSeen_setCache(i) ==
    /\ At(i, "markSeen", "setCache")
    /\ cache' = [cache EXCEPT ![tasks[i].wordId] = "seen"]
    /\ tasks' = removeAt(tasks, i)
    /\ UNCHANGED <<mode, fnVars, now, db, sessionVars, calls, answered>>

(* vocabulary.updateFamiliarity -> vocabularyDB.updateFamiliarity           *)
(* (addToReview, markKnown, ignore)                                        *)

updateFamiliarity(wordId, level) ==
    /\ Suspends([kind |-> "updateFamiliarity", pc |-> "getByWordId",
                 wordId |-> wordId, level |-> level])
    /\ UNCHANGED <<mode, fnVars, now, db, cache, sessionVars, answered>>

updateFamiliarity_getByWordId(i) ==
    /\ At(i, "updateFamiliarity", "getByWordId")
    /\ LET key == getByWordId(db, tasks[i].wordId)
       IN  tasks' = [tasks EXCEPT ![i] =
               IF key # 0
               THEN [kind |-> "updateFamiliarity", pc |-> "update",
                     wordId |-> tasks[i].wordId, level |-> tasks[i].level,
                     key |-> key,
                     changes |-> [familiarity |-> tasks[i].level,
                                  lastReviewed |-> now,
                                  reviewCount |-> db[key].reviewCount + 1]]
               ELSE [@ EXCEPT !.pc = "setCache"]]
    /\ UNCHANGED <<mode, fnVars, now, db, cache, sessionVars, calls, answered>>

updateFamiliarity_update(i) ==
    /\ At(i, "updateFamiliarity", "update")
    /\ db' = updateRow(db, tasks[i].key, tasks[i].changes)
    /\ tasks' = [tasks EXCEPT ![i] =
                    [kind |-> "updateFamiliarity", pc |-> "setCache",
                     wordId |-> tasks[i].wordId, level |-> tasks[i].level]]
    /\ UNCHANGED <<mode, fnVars, now, cache, sessionVars, calls, answered>>

updateFamiliarity_setCache(i) ==
    /\ At(i, "updateFamiliarity", "setCache")
    /\ cache' = [cache EXCEPT ![tasks[i].wordId] = tasks[i].level]
    /\ tasks' = removeAt(tasks, i)
    /\ UNCHANGED <<mode, fnVars, now, db, sessionVars, calls, answered>>

(* reviewStore.startSession, reviewStore.startPracticeSession ->           *)
(* buildReviewQueue.  The due filter uses the time of the call of          *)
(* buildReviewQueue; the sort reads the clock again, which moves every     *)
(* priority by the same amount and so leaves the order as it is.           *)

SessionTask(options) ==
    [kind |-> "startSession", pc |-> "learning", options |-> options,
     t0 |-> now, learningWords |-> << >>, seenWords |-> << >>,
     \* history: the rows that were ignored when the session was started
     ignoredAtCall |-> {k \in DOMAIN db : db[k].familiarity = "ignored"}]

startSession(reviewMode) ==
    /\ Suspends(SessionTask([mode |-> reviewMode, maxWords |-> 15,
                             surahFilter |-> NoFilter,
                             includeNewWords |-> reviewMode # "quick",
                             practiceMode |-> FALSE]))
    /\ isLoading' = TRUE
    /\ currentIndex' = 0
    /\ sessionStats' = [reviewed |-> 0, correct |-> 0]
    /\ isPracticeMode' = FALSE
    /\ UNCHANGED <<mode, fnVars, now, db, cache, queue, currentSession, answered>>

startPracticeSession(reviewMode) ==
    /\ Suspends(SessionTask([mode |-> reviewMode, maxWords |-> 10,
                             surahFilter |-> NoFilter,
                             includeNewWords |-> FALSE,
                             practiceMode |-> TRUE]))
    /\ isLoading' = TRUE
    /\ currentIndex' = 0
    /\ sessionStats' = [reviewed |-> 0, correct |-> 0]
    /\ isPracticeMode' = TRUE
    /\ UNCHANGED <<mode, fnVars, now, db, cache, queue, currentSession, answered>>

\* buildReviewQueue has read all it reads: startSession assigns the queue
\* and awaits the card data
QueueAssigned(i, learningWords, seenWords, knownWords) ==
    /\ queue' = queueOf(learningWords, seenWords, knownWords,
                        tasks[i].options, tasks[i].t0)
    /\ tasks' = [tasks EXCEPT ![i] =
                    [kind |-> "startSession", pc |-> "cards",
                     options |-> tasks[i].options]]

buildReviewQueue_learning(i) ==
    /\ At(i, "startSession", "learning")
    /\ LET learningWords == getByFamiliarity(db, "learning")
       IN  IF tasks[i].options.includeNewWords
           THEN /\ tasks' = [tasks EXCEPT ![i].pc = "seen",
                                          ![i].learningWords = learningWords]
                /\ UNCHANGED queue
           ELSE IF tasks[i].options.practiceMode
           THEN /\ tasks' = [tasks EXCEPT ![i].pc = "known",
                                          ![i].learningWords = learningWords]
                /\ UNCHANGED queue
           ELSE QueueAssigned(i, learningWords, << >>, << >>)
    /\ UNCHANGED <<mode, fnVars, now, db, cache, currentIndex, currentSession,
                   sessionStats, isPracticeMode, isLoading, calls, answered>>

buildReviewQueue_seen(i) ==
    /\ At(i, "startSession", "seen")
    /\ LET seenWords == getByFamiliarity(db, "seen")
       IN  IF tasks[i].options.practiceMode
           THEN /\ tasks' = [tasks EXCEPT ![i].pc = "known",
                                          ![i].seenWords = seenWords]
                /\ UNCHANGED queue
           ELSE QueueAssigned(i, tasks[i].learningWords, seenWords, << >>)
    /\ UNCHANGED <<mode, fnVars, now, db, cache, currentIndex, currentSession,
                   sessionStats, isPracticeMode, isLoading, calls, answered>>

buildReviewQueue_known(i) ==
    /\ At(i, "startSession", "known")
    /\ QueueAssigned(i, tasks[i].learningWords, tasks[i].seenWords,
                     getByFamiliarity(db, "known"))
    /\ UNCHANGED <<mode, fnVars, now, db, cache, currentIndex, currentSession,
                   sessionStats, isPracticeMode, isLoading, calls, answered>>

startSession_cards(i) ==
    /\ At(i, "startSession", "cards")
    /\ currentSession' = [mode |-> tasks[i].options.mode, startTime |-> now]
    /\ isLoading' = FALSE
    /\ tasks' = removeAt(tasks, i)
    /\ UNCHANGED <<mode, fnVars, now, db, cache, queue, currentIndex,
                   sessionStats, isPracticeMode, calls, answered>>

(* reviewStore.recordResponse -> vocabularyDB.updateSRS.  The field index  *)
(* of its task is history: the position of the card the call answers.      *)

recordResponse(quality) ==
    /\ currentSession # NoSession
    /\ currentIndex < Len(queue)
    /\ LET e == queue[currentIndex + 1]
       IN  Suspends(IF e.root # NoRoot
                    THEN [kind |-> "recordResponse", pc |-> "getByRoot",
                          entry |-> e, quality |-> quality,
                          index |-> currentIndex]
                    ELSE [kind |-> "recordResponse", pc |-> "getByWordId",
                          entry |-> e, quality |-> quality,
                          index |-> currentIndex,
                          updates |-> srsUpdates(e, quality,
                                          calculateRootFamilyBonus(0, 0), now)])
    /\ UNCHANGED <<mode, fnVars, now, db, cache, sessionVars, answered>>

recordResponse_getByRoot(i) ==
    /\ At(i, "recordResponse", "getByRoot")
    /\ LET e == tasks[i].entry
           relatedWords == getByRoot(db, e.root)
           knownCount == Len(SelectSeq(relatedWords,
                                       LAMBDA w : w.familiarity = "known"))
           rootFamilyBonus == calculateRootFamilyBonus(knownCount, Len(relatedWords))
       IN  tasks' = [tasks EXCEPT ![i] =
               [kind |-> "recordResponse", pc |-> "getByWordId",
                entry |-> e, quality |-> tasks[i].quality,
                index |-> tasks[i].index,
                updates |-> srsUpdates(e, tasks[i].quality, rootFamilyBonus, now)]]
    /\ UNCHANGED <<mode, fnVars, now, db, cache, sessionVars, calls, answered>>

updateSRS_getByWordId(i) ==
    /\ At(i, "recordResponse", "getByWordId")
    /\ LET key == getByWordId(db, tasks[i].entry.wordId)
       IN  tasks' = [tasks EXCEPT ![i] =
               IF key # 0
               THEN [kind |-> "recordResponse", pc |-> "update",
                     quality |-> tasks[i].quality, key |-> key,
                     index |-> tasks[i].index,
                     changes |-> tasks[i].updates
                                    @@ [lastReviewed |-> now,
                                        reviewCount |-> db[key].reviewCount + 1]]
               ELSE [kind |-> "recordResponse", pc |-> "resume",
                     quality |-> tasks[i].quality,
                     index |-> tasks[i].index]]
    /\ UNCHANGED <<mode, fnVars, now, db, cache, sessionVars, calls, answered>>

updateSRS_update(i) ==
    /\ At(i, "recordResponse", "update")
    /\ db' = updateRow(db, tasks[i].key, tasks[i].changes)
    /\ answered' = answered \cup {tasks[i].key}
    /\ tasks' = [tasks EXCEPT ![i] =
                    [kind |-> "recordResponse", pc |-> "resume",
                     quality |-> tasks[i].quality,
                     index |-> tasks[i].index]]
    /\ UNCHANGED <<mode, fnVars, now, cache, sessionVars, calls>>

recordResponse_resume(i) ==
    /\ At(i, "recordResponse", "resume")
    /\ sessionStats' = [reviewed |-> sessionStats.reviewed + 1,
                        correct |-> IF tasks[i].quality >= 3
                                    THEN sessionStats.correct + 1
                                    ELSE sessionStats.correct]
    /\ currentIndex' = currentIndex + 1
    /\ tasks' = removeAt(tasks, i)
    /\ UNCHANGED <<mode, fnVars, now, db, cache, queue, currentSession,
                   isPracticeMode, isLoading, calls, answered>>

(* reviewStore.skipWord, reviewStore.resetSession *)

skipWord ==
    /\ Invoked
    /\ currentIndex < Len(queue)
    /\ currentIndex' = currentIndex + 1
    /\ UNCHANGED <<mode, fnVars, now, db, cache, queue, currentSession,
                   sessionStats, isPracticeMode, isLoading, tasks, answered>>

resetSession ==
    /\ Invoked
    /\ queue' = << >>
    /\ currentIndex' = 0
    /\ currentSession' = NoSession
    /\ sessionStats' = [reviewed |-> 0, correct |-> 0]
    /\ isPracticeMode' = FALSE
    /\ UNCHANGED <<mode, fnVars, now, db, cache, isLoading, tasks, answered>>

(* the clock: half an hour or a day passes *)

Tick(d) ==
    /\ Invoked
    /\ d = 1 => (now - Now0) % DayTicks = 0
    /\ now + d <= Now0 + MaxDaysPassed * DayTicks + 1
    /\ now' = now + d
    /\ UNCHANGED <<mode, fnVars, db, cache, sessionVars, tasks, answered>>

NextStore ==
    \/ \E w \in WordIds, location \in Locations : markSeen(w, location)
    \/ \E w \in WordIds, level \in {"learning", "known", "ignored"} :
           updateFamiliarity(w, level)
    \/ \E reviewMode \in {"contextual", "quick"} : startSession(reviewMode)
    \/ \E reviewMode \in {"contextual", "quick"} : startPracticeSession(reviewMode)
    \/ \E quality \in StoreQualities : recordResponse(quality)
    \/ skipWord
    \/ resetSession
    \/ \E d \in {1, DayTicks} : Tick(d)
    \/ \E i \in DOMAIN tasks : upsert_getByWordId(i)
    \/ \E i \in DOMAIN tasks : upsert_write(i)
    \/ \E i \in DOMAIN tasks : markSeen_setCache(i)
    \/ \E i \in DOMAIN tasks : updateFamiliarity_getByWordId(i)
    \/ \E i \in DOMAIN tasks : updateFamiliarity_update(i)
    \/ \E i \in DOMAIN tasks : updateFamiliarity_setCache(i)
    \/ \E i \in DOMAIN tasks : buildReviewQueue_learning(i)
    \/ \E i \in DOMAIN tasks : buildReviewQueue_seen(i)
    \/ \E i \in DOMAIN tasks : buildReviewQueue_known(i)
    \/ \E i \in DOMAIN tasks : startSession_cards(i)
    \/ \E i \in DOMAIN tasks : recordResponse_getByRoot(i)
    \/ \E i \in DOMAIN tasks : updateSRS_getByWordId(i)
    \/ \E i \in DOMAIN tasks : updateSRS_update(i)
    \/ \E i \in DOMAIN tasks : recordResponse_resume(i)

SpecStore == InitStore /\ [][NextStore]_vars

----------------------------------------------------------------------------
(* Harness "session": one review session on the cards of the store, its    *)
(* handlers called while earlier calls are suspended, and recordResponse   *)
(* called with whatever number its untyped caller passes.                  *)

SubmittedQualities == {-1, 3, 6}

InitSession ==
    /\ mode = "session"
    /\ entry = NewEntry(250, 0)
    /\ call = NoCall
    /\ items = << >>
    /\ history = << >>
    /\ now = Now0
    /\ \E t \in StoreTables : db = withIds(t)
    /\ cache = [w \in WordIds |->
                   IF w <= Len(db) THEN db[w].familiarity ELSE NoLevel]
    /\ queue = << >>
    /\ currentIndex = 0
    /\ currentSession = NoSession
    /\ sessionStats = [reviewed |-> 0, correct |-> 0]
    /\ isPracticeMode = FALSE
    /\ isLoading = FALSE
    /\ tasks = << >>
    /\ calls = 0
    /\ answered = {k \in DOMAIN db : db[k].consecutiveCorrect > 0}

NextSession ==
    \/ \E reviewMode \in {"contextual", "quick"} : startSession(reviewMode)
    \/ \E quality \in SubmittedQualities : recordResponse(quality)
    \/ skipWord
    \/ \E i \in DOMAIN tasks : buildReviewQueue_learning(i)
    \/ \E i \in DOMAIN tasks : buildReviewQueue_seen(i)
    \/ \E i \in DOMAIN tasks : startSession_cards(i)
    \/ \E i \in DOMAIN tasks : recordResponse_getByRoot(i)
    \/ \E i \in DOMAIN tasks : updateSRS_getByWordId(i)
    \/ \E i \in DOMAIN tasks : updateSRS_update(i)
    \/ \E i \in DOMAIN tasks : recordResponse_resume(i)

SpecSession == InitSession /\ [][NextSession]_vars

----------------------------------------------------------------------------
(* The writers of the vocabulary table other than the review session:      *)
(* vocabularyDB.addEncounterLocation and the cloud load of the vocabulary  *)
(* store, run with markSeen and the familiarity overrides.                 *)

(* vocabularyDB.addEncounterLocation *)

addEncounterLocation(wordId, location) ==
    /\ Suspends([kind |-> "addEncounterLocation", pc |-> "getByWordId",
                 wordId |-> wordId, location |-> location])
    /\ UNCHANGED <<mode, fnVars, now, db, cache, sessionVars, answered>>

addEncounterLocation_getByWordId(i) ==
    /\ At(i, "addEncounterLocation", "getByWordId")
    /\ LET key == getByWordId(db, tasks[i].wordId)
           exists == \E j \in DOMAIN db[key].encounterLocations :
                         db[key].encounterLocations[j] = tasks[i].location
       IN  tasks' = IF key # 0 /\ ~exists
                    THEN [tasks EXCEPT ![i] =
                             [kind |-> "addEncounterLocation", pc |-> "update",
                              key |-> key,
                              changes |-> [encounterLocations |->
                                              Append(db[key].encounterLocations,
                                                     tasks[i].location)]]]
                    ELSE removeAt(tasks, i)
    /\ UNCHANGED <<mode, fnVars, now, db, cache, sessionVars, calls, answered>>

addEncounterLocation_update(i) ==
    /\ At(i, "addEncounterLocation", "update")
    /\ db' = updateRow(db, tasks[i].key, tasks[i].changes)
    /\ tasks' = removeAt(tasks, i)
    /\ UNCHANGED <<mode, fnVars, now, cache, sessionVars, calls, answered>>

(* vocabulary.loadFromSupabase -> vocabularyDB.upsert for every remote     *)
(* entry.  The remote table holds wordId, familiarity, lastReviewed and    *)
(* reviewCount; the scheduling fields are written as the defaults.         *)

RemoteEntry(wordId, familiarity, reviewCount, lastReviewed) ==
    [wordId |-> wordId, familiarity |-> familiarity,
     reviewCount |-> reviewCount, lastReviewed |-> lastReviewed]

\* the answers of fetchVocabularyFromSupabase: at most one entry for a word
RemoteTables ==
    {<< >>}
        \cup {<<RemoteEntry(w, "learning", 3, NoDate)>> : w \in WordIds}
        \cup {<<RemoteEntry(1, "learning", 3, Now0 - DayTicks),
                RemoteEntry(2, "seen", 0, NoDate)>>}

\* the entry loadFromSupabase hands to upsert, without its wordId
upsertOfRemote(r) ==
    [familiarity |-> r.familiarity, lastReviewed |-> r.lastReviewed,
     reviewCount |-> r.reviewCount, frequencyRank |-> 0, firstSeen |-> 1,
     root |-> NoRoot, easeFactor |-> 250, interval |-> 0,
     consecutiveCorrect |-> 0, encounterLocations |-> << >>,
     difficultyScore |-> 1500]

\* cache.set(entry.word_id, entry.familiarity)
cacheSet(c, r) == [c EXCEPT ![r.wordId] = r.familiarity]

loadFromSupabase ==
    /\ Suspends([kind |-> "loadFromSupabase", pc |-> "fetch"])
    /\ UNCHANGED <<mode, fnVars, now, db, cache, sessionVars, answered>>

loadFromSupabase_fetch(i, remoteEntries) ==
    /\ At(i, "loadFromSupabase", "fetch")
    /\ LET empty == [w \in WordIds |-> NoLevel]
       IN  IF remoteEntries = << >>
           THEN /\ cache' = empty
                /\ tasks' = removeAt(tasks, i)
           ELSE /\ tasks' = [tasks EXCEPT ![i] =
                       [kind |-> "loadFromSupabase", pc |-> "getByWordId",
                        remoteEntries |-> remoteEntries,
                        cache |-> cacheSet(empty, Head(remoteEntries))]]
                /\ UNCHANGED cache
    /\ UNCHANGED <<mode, fnVars, now, db, sessionVars, calls, answered>>

loadFromSupabase_getByWordId(i) ==
    /\ At(i, "loadFromSupabase", "getByWordId")
    /\ tasks' = [tasks EXCEPT ![i] =
                    [kind |-> "loadFromSupabase", pc |-> "write",
                     remoteEntries |-> tasks[i].remoteEntries,
                     cache |-> tasks[i].cache,
                     key |-> getByWordId(db, Head(tasks[i].remoteEntries).wordId)]]
    /\ UNCHANGED <<mode, fnVars, now, db, cache, sessionVars, calls, answered>>

loadFromSupabase_write(i) ==
    /\ At(i, "loadFromSupabase", "write")
    /\ LET r == Head(tasks[i].remoteEntries)
           rest == Tail(tasks[i].remoteEntries)
       IN  /\ db' = IF tasks[i].key # 0
                    THEN updateRow(db, tasks[i].key, upsertOfRemote(r))
                    ELSE Append(db, upsertOfRemote(r)
                                       @@ [wordId |-> r.wordId,
                                           nextReviewDate |-> NoDate])
           /\ IF rest = << >>
              THEN /\ cache' = tasks[i].cache
                   /\ tasks' = removeAt(tasks, i)
              ELSE /\ tasks' = [tasks EXCEPT ![i] =
                          [kind |-> "loadFromSupabase", pc |-> "getByWordId",
                           remoteEntries |-> rest,
                           cache |-> cacheSet(tasks[i].cache, Head(rest))]]
                   /\ UNCHANGED cache
    /\ answered' = answered \ {tasks[i].key}
    /\ UNCHANGED <<mode, fnVars, now, sessionVars, calls>>

InitSync ==
    /\ mode = "sync"
    /\ entry = NewEntry(250, 0)
    /\ call = NoCall
    /\ items = << >>
    /\ history = << >>
    /\ now = Now0
    /\ \E t \in StoreTables : db = withIds(t)
    /\ cache = [w \in WordIds |->
                   IF w <= Len(db) THEN db[w].familiarity ELSE NoLevel]
    /\ queue = << >>
    /\ currentIndex = 0
    /\ currentSession = NoSession
    /\ sessionStats = [reviewed |-> 0, correct |-> 0]
    /\ isPracticeMode = FALSE
    /\ isLoading = FALSE
    /\ tasks = << >>
    /\ calls = 0
    /\ answered = {k \in DOMAIN db : db[k].consecutiveCorrect > 0}

NextSync ==
    \/ \E w \in WordIds, location \in Locations : markSeen(w, location)
    \/ \E w \in WordIds : updateFamiliarity(w, "known")
    \/ \E w \in WordIds : addEncounterLocation(w, 2)
    \/ loadFromSupabase
    \/ \E i \in DOMAIN tasks : upsert_getByWordId(i)
    \/ \E i \in DOMAIN tasks : upsert_write(i)
    \/ \E i \in DOMAIN tasks : markSeen_setCache(i)
    \/ \E i \in DOMAIN tasks : updateFamiliarity_getByWordId(i)
    \/ \E i \in DOMAIN tasks : updateFamiliarity_update(i)
    \/ \E i \in DOMAIN tasks : updateFamiliarity_setCache(i)
    \/ \E i \in DOMAIN tasks : addEncounterLocation_getByWordId(i)
    \/ \E i \in DOMAIN tasks : addEncounterLocation_update(i)
    \/ \E i \in DOMAIN tasks, remoteEntries \in RemoteTables :
           loadFromSupabase_fetch(i, remoteEntries)
    \/ \E i \in DOMAIN tasks : loadFromSupabase_getByWordId(i)
    \/ \E i \in DOMAIN tasks : loadFromSupabase_write(i)

SpecSync == InitSync /\ [][NextSync]_vars

----------------------------------------------------------------------------
(* Harness "due": one stored item is answered as recordResponse and        *)
(* updateSRS answer it, here without a pause between the calculation and   *)
(* the write, so that lastReviewed is the time of the calculation; the     *)
(* clock moves on and buildReviewQueue is run over the store at any time.  *)

\* learning, answered once, a day overdue
YoungRow ==
    StoreRow("learning", 2, 1, 1, 236, Now0 - DayTicks, Now0 - 2 * DayTicks,
             1110, 1, NoRoot, 1)

DueOptions ==
    [mode : {"contextual", "quick"}, maxWords : {MaxItems},
     surahFilter : {NoFilter}, includeNewWords : BOOLEAN,
     practiceMode : BOOLEAN]

InitDue ==
    /\ mode = "due"
    /\ entry = NewEntry(250, 0)
    /\ call = NoCall
    /\ \E row \in {SeenRow, YoungRow, LearningRow} : items = withIds(<<row>>)
    /\ history = << >>
    /\ now = Now0
    /\ IdleStore

AnswerDue(quality, bonus) ==
    /\ mode = "due"
    /\ Len(history) < MaxAnswers
    /\ items' = updateRow(items, 1,
                     srsUpdates(items[1], quality, bonus, now)
                         @@ [lastReviewed |-> now,
                             reviewCount |-> items[1].reviewCount + 1])
    /\ call' = [op |-> "calculateNextReview", entry |-> items[1],
                quality |-> quality, bonus |-> bonus,
                result |-> calculateNextReview(items[1], quality, bonus, now)]
    /\ history' = Append(history, quality)
    /\ UNCHANGED <<mode, entry, now, storeVars>>

\* the clock reaches t: an instant around the due date of the item
Pass(t) ==
    /\ mode = "due"
    /\ history # << >>
    /\ t > now
    /\ now' = t
    /\ UNCHANGED <<mode, fnVars, storeVars>>

BuildDue(options) ==
    /\ mode = "due"
    /\ call' = [op |-> "buildReviewQueue", options |-> options, t |-> now,
                result |-> buildReviewQueue(items, options, now)]
    /\ UNCHANGED <<mode, entry, items, history, now, storeVars>>

NextDue ==
    \/ \E quality \in StoreQualities,
          bonus \in {calculateRootFamilyBonus(0, 1), calculateRootFamilyBonus(1, 2)} :
           AnswerDue(quality, bonus)
    \/ \E d \in {-DayTicks, -1, 0, 1, DayTicks} : Pass(items[1].nextReviewDate + d)
    \/ Pass(items[1].lastReviewed + HourTicks + 1)
    \/ \E options \in DueOptions : BuildDue(options)

SpecDue == InitDue /\ [][NextDue]_vars

----------------------------------------------------------------------------
(* Properties of the interval calculator *)

Calculated == call.op = "calculateNextReview"

\* C1: after every review of a sequence of reviews with qualities 0..5, each
\* written back to the item, the ease factor of the item is within
\* [1.3, 2.5].
C1_EaseFactorBounded ==
    mode = "seq" => entry.easeFactor >= 130 /\ entry.easeFactor <= 250

\* a failed review of an item that the penalty would take below 1.3
C1_Witness ==
    /\ mode = "seq"
    /\ Len(history) >= 2
    /\ history[Len(history)] < 3
    /\ history[Len(history) - 1] < 3
    /\ entry.easeFactor = 130

\* C2: for every entry, quality, frequency rank and root family bonus,
\* calculateNextReview returns an interval within [1, 365].
C2_IntervalBounded ==
    Calculated => call.result.newInterval >= 1 /\ call.result.newInterval <= 365

\* a successful review whose interval the clamp cut down to 365
C2_Witness ==
    /\ Calculated
    /\ call.quality >= 3
    /\ rawIntervalOf(call.entry, call.quality, call.bonus) > 365
    /\ call.result.newInterval = 365

\* C3: a review with quality 0, 1 or 2 returns a streak of 0 and an interval
\* of 1 day, whatever the interval and the streak of the item.
C3_FailureResets ==
    (Calculated /\ call.quality < 3) =>
        /\ call.result.newConsecutiveCorrect = 0
        /\ call.result.newInterval = 1

\* a failed review of an item with a long interval and a streak
C3_Witness ==
    /\ Calculated
    /\ call.quality = 2
    /\ call.entry.consecutiveCorrect >= 5
    /\ call.entry.interval >= 21
    /\ call.result.newInterval = 1

\* the number of successes (quality >= 3) at the end of a review history
RECURSIVE TrailingSuccesses(_)
TrailingSuccesses(h) ==
    IF h = << >> \/ h[Len(h)] < 3 THEN 0
    ELSE 1 + TrailingSuccesses(SubSeq(h, 1, Len(h) - 1))

\* C4: after any sequence of reviews of an item created with streak 0,
\* consecutiveCorrect is the number of successful reviews since the most
\* recent failed one (or since creation).
C4_StreakCountsSuccesses ==
    mode = "seq" => entry.consecutiveCorrect = TrailingSuccesses(history)

\* a success, a failure that resets the streak, and a success again
C4_Witness ==
    /\ mode = "seq"
    /\ Len(history) = 4
    /\ history[1] >= 3
    /\ history[2] < 3
    /\ history[3] >= 3
    /\ history[4] >= 3
    /\ entry.consecutiveCorrect = 2

----------------------------------------------------------------------------
(* Properties of the stored rows *)

\* C5 as claimed: in every state of the store, a row with reviewCount > 0
\* has its interval in [1, 365], so that interval 0 goes with reviewCount 0.
C5_ReviewCountImpliesInterval ==
    mode = "store" =>
        \A k \in DOMAIN db :
            db[k].reviewCount > 0 => db[k].interval \in 1..365

\* C5 as amended: in every state of the store, a row that holds a recorded
\* review answer (written by updateSRS since the row was last upserted) has
\* its interval in [1, 365]; a row with interval 0 holds none, whatever its
\* reviewCount.
C5_AnsweredImpliesInterval ==
    mode = "store" =>
        \A k \in DOMAIN db :
            /\ k \in answered => db[k].interval \in 1..365
            /\ db[k].interval = 0 => k \notin answered

\* a row whose reviewCount an override had raised to 1 while its interval
\* was 0 now holds its first recorded answer
C5_Witness ==
    /\ mode = "store"
    /\ \E k \in answered :
           /\ db[k].reviewCount = 2
           /\ db[k].consecutiveCorrect = 1
           /\ db[k].interval = 1

----------------------------------------------------------------------------
(* Properties of the promotion policy and the stage classifier *)

Classified == call.op = "classify"

\* C6 as claimed: for every item, shouldPromoteToKnown implies that
\* getReviewStage is "mature".
C6_PromotionImpliesMature ==
    Classified =>
        \A i \in DOMAIN items : call.promote[i] => call.stage[i] = "mature"

\* C6 as amended: for every item that is not ignored and has been reviewed
\* (reviewCount > 0), shouldPromoteToKnown implies that getReviewStage is
\* "mature".
C6_PromotionImpliesMatureUnlessSuspendedOrNew ==
    Classified =>
        \A i \in DOMAIN items :
            (/\ call.promote[i]
             /\ items[i].familiarity # "ignored"
             /\ items[i].reviewCount > 0) => call.stage[i] = "mature"

\* a reviewed learning item exactly at the promotion thresholds
C6_Witness ==
    /\ Classified
    /\ items[1].familiarity = "learning"
    /\ items[1].reviewCount > 0
    /\ items[1].interval = 21
    /\ items[1].consecutiveCorrect = 5
    /\ items[1].easeFactor = 200
    /\ call.promote[1]
    /\ call.stage[1] = "mature"

FirstMatch(familiarity, reviewCount, interval, consecutiveCorrect) ==
    CASE familiarity = "ignored" -> "suspended"
      [] familiarity # "ignored" /\ reviewCount = 0 -> "new"
      [] familiarity # "ignored" /\ reviewCount # 0 /\ interval < 1 -> "learning"
      [] familiarity # "ignored" /\ reviewCount # 0 /\ interval >= 1
            /\ interval >= 21 /\ consecutiveCorrect >= 5 -> "mature"
      [] OTHER -> "young"

\* C8: getReviewStage is the first match of: ignored -> suspended,
\* reviewCount = 0 -> new, interval < 1 -> learning, interval >= 21 and
\* consecutiveCorrect >= 5 -> mature, otherwise young; two items equal on
\* these four fields get the same stage.
C8_StageFromFourFields ==
    Classified =>
        /\ \A i \in DOMAIN items :
               call.stage[i] = FirstMatch(items[i].familiarity, items[i].reviewCount,
                                          items[i].interval,
                                          items[i].consecutiveCorrect)
        /\ call.stage[1] = call.stage[2]

\* two mature items that differ in ease factor, rank and due date
C8_Witness ==
    /\ Classified
    /\ items[1].easeFactor = 250
    /\ items[2].easeFactor = 130
    /\ items[2].frequencyRank # items[1].frequencyRank
    /\ items[2].nextReviewDate # items[1].nextReviewDate
    /\ call.stage = <<"mature", "mature">>

----------------------------------------------------------------------------
(* Properties of the queue builder and the forecast *)

QueueBuilt == call.op = "buildReviewQueue"

\* C9: the queue buildReviewQueue returns has at most maxWords elements, for
\* every collection of items and all options.
C9_QueueRespectsCap ==
    QueueBuilt => Len(call.result) <= call.options.maxWords

\* more words were selected than the cap lets through
C9_Witness ==
    /\ QueueBuilt
    /\ call.options.maxWords > 0
    /\ Len(call.result) = call.options.maxWords
    /\ Len(buildReviewQueue(items, [call.options EXCEPT !.maxWords = Len(items)],
                            now)) > call.options.maxWords

Forecasted == call.op = "generateReviewForecast"

RECURSIVE SumDueCounts(_, _)
SumDueCounts(forecast, days) ==
    IF days <= 0 THEN 0
    ELSE forecast[days - 1].dueCount + SumDueCounts(forecast, days - 1)

\* the items a forecast over a window of days has to count
InWindow(days) ==
    {i \in DOMAIN items :
        /\ getReviewStage(items[i]) # "suspended"
        /\ dueDayOf(items[i], startOfDay(now)) < days}

\* C10: generateReviewForecast returns exactly days buckets, the first one
\* dated today, and the sum of dueCount over the buckets is the number of
\* non-suspended items whose due day is less than days.
C10_ForecastConservation ==
    Forecasted =>
        /\ DOMAIN call.result = 0..(call.days - 1)
        /\ call.days > 0 => call.result[0].date = startOfDay(now)
        /\ SumDueCounts(call.result, call.days) = Cardinality(InWindow(call.days))

\* a forecast that counts two items, skips a suspended one and leaves out
\* one that is due beyond the window
C10_Witness ==
    /\ Forecasted
    /\ call.days = 2
    /\ Len(items) = 3
    /\ Cardinality(InWindow(call.days)) = 1
    /\ \E i \in DOMAIN items : getReviewStage(items[i]) = "suspended"
    /\ \E i \in DOMAIN items :
           /\ getReviewStage(items[i]) # "suspended"
           /\ dueDayOf(items[i], startOfDay(now)) >= call.days
    /\ SumDueCounts(call.result, call.days) = 1

\* the buckets of a forecast that list the word
BucketsOf(forecast, days, wordId) ==
    {d \in 0..(days - 1) :
        \E j \in DOMAIN forecast[d].words : forecast[d].words[j].id = wordId}

\* every bucket counts the words it lists, and lists no word twice
CountsMatchWords(forecast, days) ==
    \A d \in 0..(days - 1) :
        /\ forecast[d].dueCount = Len(forecast[d].words)
        /\ \A j, k \in DOMAIN forecast[d].words :
               forecast[d].words[j].id = forecast[d].words[k].id => j = k

----------------------------------------------------------------------------
(* Properties of the interval and the ease factor calculateNextReview      *)
(* returns                                                                 *)

\* C12: for an item with a streak of 0, a successful review (quality 3, 4 or
\* 5) returns a streak of 1 and an interval of 1 day, for every frequency
\* rank.
C12_FirstSuccess ==
    (Calculated /\ call.entry.consecutiveCorrect = 0 /\ call.quality >= 3) =>
        /\ call.result.newConsecutiveCorrect = 1
        /\ call.result.newInterval = 1

\* the first success, quality 4, of a new item of the most frequent band
C12_Witness ==
    /\ Calculated
    /\ call.entry.easeFactor = 250
    /\ call.entry.interval = 0
    /\ call.entry.consecutiveCorrect = 0
    /\ call.entry.frequencyRank = 1
    /\ call.quality = 4
    /\ call.result.newInterval = 1
    /\ call.result.newConsecutiveCorrect = 1

\* C13: for an item with a streak of 1 and an interval of 1, a review with
\* quality 4 returns a streak of 2 and an interval within [5, 8] for every
\* frequency rank, 6 for an unranked item.
C13_SecondSuccess ==
    (/\ Calculated
     /\ call.entry.consecutiveCorrect = 1
     /\ call.entry.interval = 1
     /\ call.quality = 4) =>
        /\ call.result.newConsecutiveCorrect = 2
        /\ call.result.newInterval \in 5..8
        /\ call.entry.frequencyRank = 0 => call.result.newInterval = 6

\* the second success of a rare word: 6 * 0.9 rounds to 5
C13_Witness ==
    /\ Calculated
    /\ call.entry.consecutiveCorrect = 1
    /\ call.entry.interval = 1
    /\ call.entry.frequencyRank = 1001
    /\ call.quality = 4
    /\ call.result.newInterval = 5
    /\ call.result.newConsecutiveCorrect = 2

\* the frequency multiplier by the bands of the rank, in hundredths
BandMultiplier(rank) ==
    CASE rank = 0 -> 100
      [] rank \in 1..100 -> 130
      [] rank \in 101..500 -> 115
      [] rank \in 501..1000 -> 100
      [] OTHER -> 90

\* the quality adjustment, in hundredths
QualityAdjustment(quality) ==
    CASE quality = 5 -> 110
      [] quality = 3 -> 90
      [] OTHER -> 100

\* round(old interval * (ef' + bonus)) with the ease factor after its update
GrownInterval(e, quality, bonus) ==
    LET ef == Max(130, Min(250, e.easeFactor + easeDelta(quality)))
    IN  MathRound(e.interval * (ef * bonus.den + 100 * bonus.num),
                  100 * bonus.den)

\* a success that brings the streak to 3 or more
LaterSuccess == Calculated /\ call.quality >= 3 /\ call.entry.consecutiveCorrect >= 2

\* C14 as claimed: for a success that brings the streak to 3 or more, the
\* new interval is round(old interval * (ef' + bonus)) times the frequency
\* multiplier times the quality adjustment, clamped to [1, 365]; being a
\* whole number of days, it is the product taken to a nearest integer.
\* (Stated for the items reviews produce: a streak of 2 or more comes with an
\* interval of at least 5 days.)
C14_IntervalIsProduct ==
    (LaterSuccess /\ call.entry.interval >= 5) =>
        LET product == GrownInterval(call.entry, call.quality, call.bonus)
                           * BandMultiplier(call.entry.frequencyRank)
                           * QualityAdjustment(call.quality)
            clamped == Max(10000, Min(3650000, product))
            distance == call.result.newInterval * 10000 - clamped
        IN  distance <= 5000 /\ -distance <= 5000

\* C14 as amended: for a success that brings the streak to 3 or more, the
\* new interval is round(old interval * (ef' + bonus)), times the frequency
\* multiplier and rounded, times the quality adjustment and rounded again,
\* then clamped to [1, 365].
C14_IntervalIsRoundedStepByStep ==
    LaterSuccess =>
        LET base == GrownInterval(call.entry, call.quality, call.bonus)
            byRank == RoundTimes(base, BandMultiplier(call.entry.frequencyRank))
            byQuality == RoundTimes(byRank, QualityAdjustment(call.quality))
        IN  call.result.newInterval = Max(1, Min(365, byQuality))

\* a perfect recall of a frequent word with a family bonus of 0.25: the
\* interval of 20 days grows to round(20 * 2.75) = 55, then to
\* round(55 * 1.3) = 72 (71.5 exactly), then to round(72 * 1.1) = 79
C14_Witness ==
    /\ LaterSuccess
    /\ call.entry.easeFactor = 250
    /\ call.entry.interval = 20
    /\ call.entry.frequencyRank = 100
    /\ call.quality = 5
    /\ call.bonus = [num |-> 1, den |-> 4]
    /\ call.result.newInterval = 79

\* the ease factor the SM-2 formula gives, in hundredths
ClaimedEaseFactor(ef, quality) ==
    LET q == 5 - quality
        updated == Max(130, Min(250, ef + (10 - q * (8 + q * 2))))
    IN  IF quality >= 3 THEN updated ELSE Max(130, updated - 20)

\* C15: calculateNextReview returns the ease factor
\* clamp(ef + (0.1 - (5-q)(0.08 + (5-q)0.02)), 1.3, 2.5), less a further 0.2
\* (not below 1.3) when the quality is below 3; a failure strictly lowers an
\* ease factor above 1.3, quality 4 leaves it unchanged, quality 5 never
\* lowers it and quality 3 never raises it.
C15_EaseFactorUpdate ==
    Calculated =>
        LET quality == call.quality
            ef == call.entry.easeFactor
            newEf == call.result.newEaseFactor
        IN  /\ newEf = ClaimedEaseFactor(ef, quality)
            /\ (quality < 3 /\ ef > 130) => newEf < ef
            /\ quality = 4 => newEf = ef
            /\ quality = 5 => newEf >= ef
            /\ quality = 3 => newEf <= ef

\* an item at 2.46 failed with quality 1: 2.46 - 0.54 - 0.2 = 1.72
C15_Witness ==
    /\ Calculated
    /\ mode = "ease"
    /\ call.entry.easeFactor = 246
    /\ call.quality = 1
    /\ call.result.newEaseFactor = 172

----------------------------------------------------------------------------
(* Properties of the selection of buildReviewQueue *)

\* the wordIds of a queue
Ids(words) == {words[j].wordId : j \in DOMAIN words}

\* the candidate pool: learning, seen when new words are included, known in
\* practice mode
InPool(e, options) ==
    \/ e.familiarity = "learning"
    \/ e.familiarity = "seen" /\ options.includeNewWords
    \/ e.familiarity = "known" /\ options.practiceMode

\* the container filter, when one is given
InContainer(e, options) ==
    \/ options.surahFilter = NoFilter
    \/ e.firstSeen = options.surahFilter
    \/ \E j \in DOMAIN e.encounterLocations :
           e.encounterLocations[j] = options.surahFilter

IsDue(e) == e.nextReviewDate = NoDate \/ e.nextReviewDate <= now

\* a queue built without practice mode and with room for every item
NormalUncapped ==
    /\ QueueBuilt
    /\ ~call.options.practiceMode
    /\ call.options.maxWords >= Len(items)

\* C16 as claimed: in normal mode with maxWords at least the number of
\* items, buildReviewQueue returns exactly the items that are learning, or
\* seen when includeNewWords is true, and whose nextReviewDate is absent or
\* <= now; known and new items and items not yet due are never returned.
C16_QueueIsTheDueCandidates ==
    NormalUncapped =>
        /\ Len(call.result) = Cardinality(Ids(call.result))
        /\ Ids(call.result) =
               {items[i].wordId : i \in
                   {k \in DOMAIN items :
                       InPool(items[k], call.options) /\ IsDue(items[k])}}

\* C16 as amended: in normal mode with maxWords at least the number of
\* items, buildReviewQueue returns exactly the items that are learning, or
\* seen when includeNewWords is true, whose nextReviewDate is absent or
\* <= now and, when a surah filter is given, that were first seen or
\* encountered in that surah; known and new items and items not yet due are
\* never returned.
C16_QueueIsTheDueCandidatesOfTheSurah ==
    NormalUncapped =>
        /\ Len(call.result) = Cardinality(Ids(call.result))
        /\ Ids(call.result) =
               {items[i].wordId : i \in
                   {k \in DOMAIN items :
                       /\ InPool(items[k], call.options)
                       /\ InContainer(items[k], call.options)
                       /\ IsDue(items[k])}}
        /\ \A j \in DOMAIN call.result :
               /\ call.result[j].familiarity \notin {"known", "new", "ignored"}
               /\ IsDue(call.result[j])

\* of a seen item, an item due at this very moment and a known item, the
\* queue holds the first two when new words are included
C16_Witness ==
    /\ NormalUncapped
    /\ call.options.includeNewWords
    /\ call.options.surahFilter = NoFilter
    /\ Len(items) = 3
    /\ items[1].familiarity = "seen"
    /\ items[2].familiarity = "learning" /\ items[2].nextReviewDate = now
    /\ items[3].familiarity = "known"
    /\ Ids(call.result) = {1, 2}

\* a queue built in practice mode with room for every item
PracticeUncapped ==
    /\ QueueBuilt
    /\ call.options.practiceMode
    /\ call.options.maxWords >= Len(items)

\* the items of the pool and the container a practice queue chooses from
PracticePool ==
    {k \in DOMAIN items :
        /\ InPool(items[k], call.options)
        /\ InContainer(items[k], call.options)}

\* C17 as claimed: in practice mode buildReviewQueue selects an item of the
\* candidate pool exactly when its reviewCount > 0 and its lastReviewed is
\* more than one hour before now, whatever its nextReviewDate.  (Stated for
\* the items the store writes: lastReviewed is set with every increment of
\* reviewCount.)
C17_PracticeOlderThanOneHour ==
    PracticeUncapped =>
        \A k \in PracticePool :
            (items[k].reviewCount > 0 => items[k].lastReviewed # NoDate) =>
                (items[k].wordId \in Ids(call.result)
                    <=> (/\ items[k].reviewCount > 0
                         /\ items[k].lastReviewed < now - HourTicks))

\* C17 as amended: in practice mode buildReviewQueue selects an item of the
\* candidate pool exactly when its reviewCount > 0 and its lastReviewed is
\* absent or not later than one hour before now, whatever its
\* nextReviewDate; items outside the pool are never selected.
C17_PracticeNotWithinTheHour ==
    PracticeUncapped =>
        /\ Ids(call.result) \subseteq {items[k].wordId : k \in PracticePool}
        /\ \A k \in PracticePool :
               items[k].wordId \in Ids(call.result)
                   <=> (/\ items[k].reviewCount > 0
                        /\ \/ items[k].lastReviewed = NoDate
                           \/ items[k].lastReviewed <= now - HourTicks)

\* of three items that are not due, the one answered half an hour ago is
\* left out and those answered one hour and two hours ago are selected
C17_Witness ==
    /\ PracticeUncapped
    /\ Len(items) = 3
    /\ \A k \in DOMAIN items : ~IsDue(items[k])
    /\ items[1].lastReviewed = now - 1
    /\ items[2].lastReviewed = now - HourTicks
    /\ items[3].lastReviewed = now - 2 * HourTicks
    /\ Ids(call.result) = {2, 3}

----------------------------------------------------------------------------
(* Properties of ignored items in the store *)

\* the fields calculateNextReview schedules an item with
SchedulingOf(e) ==
    <<e.easeFactor, e.interval, e.consecutiveCorrect, e.nextReviewDate>>

\* the step is the write of a familiarity override or of an upsert to row k
StoreWrites(k) ==
    \E i \in DOMAIN tasks :
        /\ tasks[i].kind \in {"updateFamiliarity", "markSeen"}
        /\ tasks[i].pc \in {"update", "write"}
        /\ tasks[i].key = k

\* the step assigns the queue that the session task i has built
AssignsQueue(i) ==
    /\ i \in DOMAIN tasks'
    /\ tasks[i].kind = "startSession"
    /\ tasks[i].pc # "cards"
    /\ tasks'[i].kind = "startSession"
    /\ tasks'[i].pc = "cards"

\* C18: once a row is ignored, no step other than a write of the vocabulary
\* store to that row (a familiarity override) changes its familiarity or
\* its scheduling fields, and no queue of a session started while the row
\* was ignored contains it, in every interleaving of the handlers.
C18_IgnoredStaysOut ==
    [][mode = "store" =>
          /\ \A k \in DOMAIN db :
                 (db[k].familiarity = "ignored" /\ ~StoreWrites(k)) =>
                     /\ db'[k].familiarity = "ignored"
                     /\ SchedulingOf(db'[k]) = SchedulingOf(db[k])
          /\ \A i \in DOMAIN tasks :
                 AssignsQueue(i) =>
                     \A k \in tasks[i].ignoredAtCall :
                         db[k].familiarity = "ignored"
                             => db[k].wordId \notin Ids(queue')]_vars

----------------------------------------------------------------------------
(* Properties of the order of the queue *)

\* the priority key of an item, times 3000 * 18 ticks (a tick is 1800000 ms)
\* in the normal modes and times 2 * 3000 * DayTicks in practice mode
KeyOf(e, options) ==
    IF options.practiceMode
    THEN difficultyOf(e) * DayTicks
             + (IF e.lastReviewed = NoDate THEN now ELSE now - e.lastReviewed) * 3000
    ELSE (IF e.nextReviewDate = NoDate THEN now ELSE now - e.nextReviewDate) * 54000
             + difficultyOf(e) * (IF options.mode = "quick" THEN 5 ELSE 10)

\* the item is selected for the queue
IsSelected(e, options) ==
    /\ InPool(e, options)
    /\ InContainer(e, options)
    /\ IF options.practiceMode
       THEN /\ e.reviewCount > 0
            /\ e.lastReviewed = NoDate \/ e.lastReviewed <= now - HourTicks
       ELSE IsDue(e)

\* the selected items in the order of the collection
SelectedInInputOrder(options) ==
    SelectSeq(items, LAMBDA e : IsSelected(e, options))

\* the selected items in the order of the candidate pool: the learning
\* items, then the seen ones, then the known ones
SelectedInPoolOrder(options) ==
    SelectSeq(getByFamiliarity(items, "learning")
                  \o getByFamiliarity(items, "seen")
                  \o getByFamiliarity(items, "known"),
              LAMBDA e : IsSelected(e, options))

\* result is the first n elements of selected sorted by descending key,
\* equal keys in the order of selected
IsSortedPrefix(result, selected, options, n) ==
    LET pos(e) == CHOOSE j \in DOMAIN selected : selected[j].wordId = e.wordId
        before(a, b) ==
            \/ KeyOf(a, options) > KeyOf(b, options)
            \/ KeyOf(a, options) = KeyOf(b, options) /\ pos(a) < pos(b)
    IN  /\ Len(result) = Min(n, Len(selected))
        /\ \A j \in DOMAIN result : \E k \in DOMAIN selected : result[j] = selected[k]
        /\ \A j \in 1..(Len(result) - 1) : before(result[j], result[j + 1])
        /\ \A k \in DOMAIN selected :
               selected[k].wordId \notin Ids(result) =>
                   \A j \in DOMAIN result :
                       /\ before(result[j], selected[k])
                       /\ KeyOf(selected[k], options) <= KeyOf(result[j], options)

\* C19 as claimed: the queue is the first maxWords of the selected items
\* sorted by descending key (overdue ms + difficulty * weight, or in practice
\* mode 0.5 * difficulty + 0.5 * days since the last review), items of equal
\* key in the order of the input collection.
C19_SortedTiesInInputOrder ==
    QueueBuilt =>
        IsSortedPrefix(call.result, SelectedInInputOrder(call.options),
                       call.options, call.options.maxWords)

\* C19 as amended: the queue is the first maxWords of the selected items
\* sorted by descending key, items of equal key in the order of the
\* candidate pool: learning items first, then seen, then known, each group
\* in the order of the store; no omitted selected item has a higher key
\* than a returned one.
C19_SortedTiesInPoolOrder ==
    QueueBuilt =>
        IsSortedPrefix(call.result, SelectedInPoolOrder(call.options),
                       call.options, call.options.maxWords)

\* of a seen item and two learning items, all three never scheduled and
\* equally difficult, and in that order in the store, the queue of two holds
\* the learning items
C19_Witness ==
    /\ QueueBuilt
    /\ ~call.options.practiceMode
    /\ call.options.maxWords = 2
    /\ Len(items) = 3
    /\ items[1].familiarity = "seen"
    /\ items[2].familiarity = "learning"
    /\ items[3].familiarity = "learning"
    /\ \A k \in DOMAIN items :
           KeyOf(items[k], call.options) = KeyOf(items[1], call.options)
    /\ call.result = <<items[2], items[3]>>

----------------------------------------------------------------------------
(* Properties of the difficulty score *)

Scored == call.op = "calculateDifficultyScore"

\* C20: calculateDifficultyScore is
\* clamp(0.4 * (1 - (ef - 1.3) / 1.2) + 0.4 * max(0, 1 - cc / 5)
\*           + 0.2 * (0.3 * min(1, rc / 20)), 0, 1),
\* here times 6000; it lies in [0, 1] and the review count adds at most 0.06.
C20_DifficultyFormula ==
    Scored =>
        LET e == call.entry
            ease == 20 * (120 - (e.easeFactor - 130))
            streak == 480 * Max(0, 5 - e.consecutiveCorrect)
            volume == 18 * Min(20, e.reviewCount)
            unreviewed == calculateDifficultyScore([e EXCEPT !.reviewCount = 0])
        IN  /\ 2 * call.result = Max(0, Min(6000, ease + streak + volume))
            /\ call.result >= 0 /\ call.result <= 3000
            /\ call.result - unreviewed >= 0
            /\ call.result - unreviewed <= 180

\* a struggling item with 40 reviews: 0.4 + 0.4 + 0.06 = 0.86
C20_Witness ==
    /\ Scored
    /\ call.entry.easeFactor = 130
    /\ call.entry.consecutiveCorrect = 0
    /\ call.entry.reviewCount = 40
    /\ call.result = 2580

----------------------------------------------------------------------------
(* Properties of the due date *)

\* the item of the due harness holds an answer
AnsweredDue == mode = "due" /\ history # << >>

----------------------------------------------------------------------------
(* Properties of the learning progression *)

\* every review of the progression so far was a good or perfect recall
AllGood == \A j \in DOMAIN history : history[j] >= 4

\* C22: a freshly created item (ease factor 2.5, interval 0, streak 0) that
\* is answered with quality >= 4 on every review satisfies
\* shouldPromoteToKnown after the fifth success and not earlier, for every
\* frequency rank and every root family bonus in [0, 0.5].
C22_PromotedAfterFiveSuccesses ==
    (mode = "learn" /\ AllGood) =>
        (shouldPromoteToKnown(entry) <=> Len(history) >= 5)

\* a rare word without a family, answered "good" five times: its intervals
\* are 1, 5, 12, 27 and 61 days
C22_Witness ==
    /\ mode = "learn"
    /\ history = <<4, 4, 4, 4, 4>>
    /\ entry.frequencyRank = 1001
    /\ entry.interval = 61
    /\ entry.consecutiveCorrect = 5
    /\ entry.easeFactor = 250
    /\ shouldPromoteToKnown(entry)

----------------------------------------------------------------------------
(* Properties of the familiarity recordResponse writes *)

\* C23: when recordResponse writes its result to the row of the item, the
\* stored familiarity becomes "known" if shouldPromoteToKnown holds of the
\* new ease factor, interval and streak; otherwise "learning" if the stored
\* item was "seen", and otherwise it stays what it was.
C23_FamiliarityAfterResponse ==
    [][\A i \in DOMAIN tasks :
          updateSRS_update(i) =>
              LET k == tasks[i].key
              IN  db'[k].familiarity =
                      IF shouldPromoteToKnown(db'[k]) THEN "known"
                      ELSE IF db[k].familiarity = "seen" THEN "learning"
                      ELSE db[k].familiarity]_vars

----------------------------------------------------------------------------
(* Properties of the writers of the scheduling fields *)

\* the ease factor, the interval and the streak of a row
SrsFieldsOf(e) == <<e.easeFactor, e.interval, e.consecutiveCorrect>>

\* the step is the write of a recorded review answer to row k
AnswerWrites(k) ==
    \E i \in DOMAIN tasks : updateSRS_update(i) /\ tasks[i].key = k

\* C24: the ease factor, the interval and the streak of a stored item change
\* only with the write of a recorded review answer: familiarity overrides,
\* markSeen, addEncounterLocation and loadFromSupabase leave these fields of
\* an existing row as they are.
C24_OnlyAnswersReschedule ==
    [][\A k \in DOMAIN db :
          ~AnswerWrites(k) => SrsFieldsOf(db'[k]) = SrsFieldsOf(db[k])]_vars

----------------------------------------------------------------------------
(* Properties of the arguments of the pure functions *)

----------------------------------------------------------------------------
(* Properties of the review session *)

\* C26: a call of recordResponse with a quality outside 0..5 is rejected
\* before calculateNextReview is invoked: it starts no work, and it leaves
\* the stored rows and the counters of the session as they are.
C26_InvalidQualityRejected ==
    [][\A quality \in SubmittedQualities \ Qualities :
          recordResponse(quality) =>
              UNCHANGED <<db, tasks, sessionStats, currentIndex>>]_vars

\* the tasks of recordResponse in flight
Responding == {i \in DOMAIN tasks : tasks[i].kind = "recordResponse"}

\* C27: in every state of a review session, 0 <= currentIndex <=
\* queue.length, and no card has more than one response on its way to the
\* store, for every interleaving of recordResponse and skipWord, calls made
\* while another is suspended at an await included.
C27_IndexInRangeOneResponsePerCard ==
    mode = "session" =>
        /\ currentIndex >= 0
        /\ currentIndex <= Len(queue)
        /\ \A i, j \in Responding : tasks[i].index = tasks[j].index => i = j

----------------------------------------------------------------------------
(* Properties of the row recordResponse writes *)

\* C28: when recordResponse writes its result to the row of the item, the
\* stored difficultyScore is calculateDifficultyScore of the row as stored:
\* the new ease factor, the new streak and the incremented reviewCount.
C28_DifficultyOfStoredRow ==
    [][\A i \in DOMAIN tasks :
          updateSRS_update(i) =>
              db'[tasks[i].key].difficultyScore =
                  calculateDifficultyScore(db'[tasks[i].key])]_vars

\* C29: the write of a recorded response never takes the stored familiarity
\* of a row from "known" to another value, whatever the quality, also when
\* the row was marked known after the queue of the session was built.
C29_KnownStaysKnown ==
    [][\A i \in DOMAIN tasks :
          (updateSRS_update(i) /\ db[tasks[i].key].familiarity = "known") =>
              db'[tasks[i].key].familiarity = "known"]_vars

----------------------------------------------------------------------------
(* Properties of the place of the unscheduled items in the queue *)

\* C30: in a normal-mode queue every selected item without a
\* nextReviewDate comes before every selected item that has one, however
\* overdue or difficult the scheduled item is: the overdue time of an
\* unscheduled item is the whole timestamp of the clock.
C30_UnscheduledFirst ==
    (QueueBuilt /\ ~call.options.practiceMode) =>
        \A j, k \in DOMAIN call.result :
            (/\ call.result[j].nextReviewDate = NoDate
             /\ call.result[k].nextReviewDate # NoDate) => j < k

\* a never-scheduled item of difficulty 0.5 ahead of an item that is a day
\* overdue and of a harder one that is due now
C30_Witness ==
    /\ QueueBuilt
    /\ ~call.options.practiceMode
    /\ Len(call.result) = 3
    /\ call.result[1].nextReviewDate = NoDate
    /\ difficultyOf(call.result[1]) = 1500
    /\ call.result[2].nextReviewDate = now - DayTicks
    /\ call.result[3].nextReviewDate = now
    /\ difficultyOf(call.result[3]) > 1500

====
